---- MODULE Spec2Model ----
(***************************************************************************)
(* Model of the scrape -> analyse -> rebrand pipeline of shades-webapp:    *)
(*   - the scrape-website GET handler, its parser and                      *)
(*     ProxyService.fetchViaProxy,                                         *)
(*   - the client WebsiteScraper.scrapeWebsite,                            *)
(*   - BrandAnalyzer.analyzeBrand and its sub-passes,                      *)
(*   - WebsiteRebrander.rebrandWebsite,                                    *)
(*   - the WebsiteRebranderPage wizard that drives them, with its Deploy   *)
(*     button,                                                             *)
(*   - the POST handler of the server-side rebrand endpoint.               *)
(* Text is a sequence of one-character strings, so that the regular        *)
(* expressions and replacements of the code are computed character by      *)
(* character. A document is the element list cheerio.load() produces.      *)
(***************************************************************************)
EXTENDS Integers, Sequences, FiniteSets, TLC

(***************************************************************************)
(* JavaScript string primitives used by the code                           *)
(***************************************************************************)
UpperChars == <<"A","B","C","D","E","F","G","H","I","J","K","L","M",
                "N","O","P","Q","R","S","T","U","V","W","X","Y","Z">>

LowerChars == <<"a","b","c","d","e","f","g","h","i","j","k","l","m",
                "n","o","p","q","r","s","t","u","v","w","x","y","z">>

\* The case folding of the regular expression flag "i".
LowerOf ==
    [c \in {UpperChars[i] : i \in 1..Len(UpperChars)} |->
        LowerChars[CHOOSE i \in 1..Len(UpperChars) : UpperChars[i] = c]]

Lower(c) == IF c \in DOMAIN LowerOf THEN LowerOf[c] ELSE c

WhiteSpace == {" ", "\n", "\t"}

HexDigits == {"0","1","2","3","4","5","6","7","8","9",
              "a","b","c","d","e","f","A","B","C","D","E","F"}

\* pat occurs at position i of s, compared exactly (String.indexOf, split).
MatchAtCS(s, i, pat) ==
    /\ i >= 1
    /\ i + Len(pat) - 1 <= Len(s)
    /\ \A k \in 1..Len(pat) : s[i + k - 1] = pat[k]

\* pat occurs at position i of s, ignoring case (RegExp(escaped, gi)).
MatchAt(s, i, pat) ==
    /\ i >= 1
    /\ i + Len(pat) - 1 <= Len(s)
    /\ \A k \in 1..Len(pat) : Lower(s[i + k - 1]) = Lower(pat[k])

\* The least element of a set of positions, 0 if the set is empty.
FirstOf(ps) == IF ps = {} THEN 0 ELSE CHOOSE k \in ps : \A m \in ps : k <= m

\* First position >= i where pat occurs exactly, 0 if none.
IndexFrom(s, i, pat) ==
    FirstOf({k \in i..(Len(s) - Len(pat) + 1) : MatchAtCS(s, k, pat)})

\* First position >= i where pat occurs ignoring case, 0 if none.
NextMatch(s, i, pat) ==
    FirstOf({k \in i..(Len(s) - Len(pat) + 1) : MatchAt(s, k, pat)})

\* String.prototype.includes
Includes(s, pat) == IndexFrom(s, 1, pat) > 0

\* String.prototype.startsWith
StartsWith(s, pat) == MatchAtCS(s, 1, pat)

\* s.split(sep)[0]
SplitHead(s, sep) ==
    LET p == IndexFrom(s, 1, sep)
    IN  IF p = 0 THEN s ELSE SubSeq(s, 1, p - 1)

\* s.split(sep)[1], where s is known to contain sep
SplitSecond(s, sep) ==
    LET p == IndexFrom(s, 1, sep)
        rest == SubSeq(s, p + Len(sep), Len(s))
    IN  SplitHead(rest, sep)

TrimLeft(s) ==
    LET p == FirstOf({k \in 1..Len(s) : s[k] \notin WhiteSpace})
    IN  IF p = 0 THEN <<>> ELSE SubSeq(s, p, Len(s))

TrimRight(s) ==
    LET q == FirstOf({k \in 0..Len(s) :
                        \A m \in (k + 1)..Len(s) : s[m] \in WhiteSpace})
    IN  SubSeq(s, 1, q)

\* String.prototype.trim
Trim(s) == TrimRight(TrimLeft(s))

\* The replacement-string patterns of String.prototype.replace: $$ is a
\* dollar sign and $& the matched text. The pattern has no groups, so $1..
\* stay literal. (The patterns for the text before and after the match
\* need a backquote or an apostrophe, which no text of the model holds.)
RECURSIVE ExpandReplacement(_, _, _, _)
ExpandReplacement(rep, s, i, n) ==
    IF rep = <<>> THEN <<>>
    ELSE IF Len(rep) >= 2 /\ rep[1] = "$" /\ rep[2] = "$"
         THEN <<"$">> \o ExpandReplacement(SubSeq(rep, 3, Len(rep)), s, i, n)
    ELSE IF Len(rep) >= 2 /\ rep[1] = "$" /\ rep[2] = "&"
         THEN SubSeq(s, i, i + n - 1)
                \o ExpandReplacement(SubSeq(rep, 3, Len(rep)), s, i, n)
    ELSE <<Head(rep)>> \o ExpandReplacement(Tail(rep), s, i, n)

\* s.replace(new RegExp(escapeRegExp(pat), gi), rep) from position i on:
\* matches are taken left to right and do not overlap; the empty pattern
\* matches before every character and at the end.
RECURSIVE ReplaceFrom(_, _, _, _)
ReplaceFrom(s, i, pat, rep) ==
    IF pat = <<>>
    THEN LET e == ExpandReplacement(rep, s, i, 0)
             w == Len(e) + 1
             rest == SubSeq(s, i, Len(s))
         IN  [k \in 1..(Len(rest) * w + Len(e)) |->
                 IF k % w = 0 THEN rest[k \div w] ELSE e[k % w]]
    ELSE LET j == NextMatch(s, i, pat)
         IN  IF j = 0 THEN SubSeq(s, i, Len(s))
             ELSE SubSeq(s, i, j - 1)
                    \o ExpandReplacement(rep, s, j, Len(pat))
                    \o ReplaceFrom(s, j + Len(pat), pat, rep)

ReplaceAllCI(s, pat, rep) == ReplaceFrom(s, 1, pat, rep)

\* (s.match(new RegExp(escapeRegExp(pat), gi)) || []).length
RECURSIVE CountFrom(_, _, _)
CountFrom(s, i, pat) ==
    IF pat = <<>> THEN Len(s) + 1
    ELSE LET j == NextMatch(s, i, pat)
         IN  IF j = 0 THEN 0 ELSE 1 + CountFrom(s, j + Len(pat), pat)

CountCI(s, pat) == CountFrom(s, 1, pat)

\* Array.prototype.join
RECURSIVE Join(_, _)
Join(parts, sep) ==
    IF parts = <<>> THEN <<>>
    ELSE IF Len(parts) = 1 THEN parts[1]
    ELSE parts[1] \o sep \o Join(Tail(parts), sep)

(***************************************************************************)
(* State                                                                   *)
(***************************************************************************)
VARIABLES
    \* --- one scrape-website GET request (route.ts GET, ProxyService) ---
    gPc,            \* position of the handler: idle, direct, proxy, parse, done
    gUrl,           \* the url query parameter, NoUrl if absent
    gUseProxy,      \* the useProxy query parameter === 'true'
    gIdx,           \* fetchViaProxy: index of the next entry of proxies
    gAttempts,      \* the network attempts made so far, in order
    gDirectError,   \* directError caught by the handler, NoError if none
    gHtml,          \* the html variable of the handler
    gResponse,      \* the NextResponse returned, NoResponse before
    gLog            \* what the two loggers were given during the request

scrapeVars == <<gPc, gUrl, gUseProxy, gIdx, gAttempts, gDirectError,
                gHtml, gResponse, gLog>>

VARIABLES
    \* --- calls of analyzeBrand and rebrandWebsite on one ScrapedContent ---
    pContent,       \* the ScrapedContent
    pOriginal,      \* what analyzeBrand returned for it, NoBrand before
    pCalls          \* the rebrandWebsite calls made: newBrand and result

pipeVars == <<pContent, pOriginal, pCalls>>

VARIABLES
    \* --- the state of WebsiteRebranderPage (useState) ---
    url, isLoading, step, scrapedContent, originalBrand, savedWebsiteId,
    useProxy, newBrand, rebrandedContent, error,
    \* --- what the page has done to the world around it ---
    createdWebsites,    \* the websites POST /api/rebrand-website created
    pushed              \* the website id router.push was given, NoPush before

wizVars == <<url, isLoading, step, scrapedContent, originalBrand,
             savedWebsiteId, useProxy, newBrand, rebrandedContent, error,
             createdWebsites, pushed>>

VARIABLES
    \* --- one call of BrandAnalyzer.isLightColor ---
    lColor,         \* the color argument, NoColor before the call
    lLight          \* what the call returned

lightVars == <<lColor, lLight>>

VARIABLES
    \* --- one call of the client WebsiteScraper.scrapeWebsite ---
    cPc,            \* position of the call: idle, request, done
    cUrl,           \* the url argument
    cArgProxy,      \* the useProxy argument of the call
    cUseProxy,      \* useProxy of the invocation that is running
    cRequests,      \* the requests made to the scrape API, in order
    cResult         \* what the call returned or threw, NoResult before

clientVars == <<cPc, cUrl, cArgProxy, cUseProxy, cRequests, cResult>>

VARIABLES
    \* --- the rebrand endpoint and the collections it works on ---
    website,        \* the document of the Website collection
    activities,     \* the Activity collection, in the order of the saves
    postRequest,    \* the last POST: session, body and the await that threw
    postResponse    \* the response to it

serverVars == <<website, activities, postRequest, postResponse>>

vars == <<scrapeVars, pipeVars, wizVars, lightVars, clientVars, serverVars>>

(***************************************************************************)
(* Documents: what cheerio.load(html) gives the code                       *)
(***************************************************************************)
\* An attribute that is absent, an element without text.
None == <<>>

\* An element in document order: its tag, the index of its parent (0 for a
\* child of body), its class, alt and src attributes (<<>> when absent)
\* and the text node it holds (<<>> when it holds none).
Elem(tag, parent, cls, alt, src, text) ==
    [tag |-> tag, parent |-> parent, cls |-> cls, alt |-> alt, src |-> src,
     text |-> text]

\* A link element with its rel and href attributes.
Link(rel, href) ==
    [tag |-> "link", parent |-> 0, cls |-> <<>>, alt |-> <<>>, src |-> <<>>,
     text |-> <<>>, rel |-> rel, href |-> href]

\* A meta element with its name and content attributes.
Meta(name, content) ==
    [tag |-> "meta", parent |-> 0, cls |-> <<>>, alt |-> <<>>, src |-> <<>>,
     text |-> <<>>, name |-> name, content |-> content]

RECURSIVE Ancestors(_, _)
Ancestors(doc, i) ==
    IF doc[i].parent = 0 THEN {}
    ELSE {doc[i].parent} \cup Ancestors(doc, doc[i].parent)

\* The class attribute has the class c among its space-separated names.
HasClass(cls, c) ==
    \E p \in 1..Len(cls) :
        /\ MatchAtCS(cls, p, c)
        /\ p = 1 \/ cls[p - 1] \in WhiteSpace
        /\ p + Len(c) > Len(cls) \/ cls[p + Len(c)] \in WhiteSpace

\* $(selector) for the selectors the code uses, as the set of indices of
\* the matching elements.
Select(doc, sel) ==
    LET Idx == 1..Len(doc)
        Under(i, P(_)) == \E a \in Ancestors(doc, i) : P(a)
        IsTag(i, t) == doc[i].tag = t
        Cls(i, c) == HasClass(doc[i].cls, c)
        ABrand(i) == IsTag(i, "a") /\ Cls(i, <<"b","r","a","n","d">>)
        ANavbar(i) == IsTag(i, "a") /\ Cls(i, <<"n","a","v","b","a","r","-","b","r","a","n","d">>)
        DotBrand(i) == Cls(i, <<"b","r","a","n","d">>)
        DotLogo(i) == Cls(i, <<"l","o","g","o">>)
        Header(i) == IsTag(i, "header")
        HeaderLogo(i) == Cls(i, <<"l","o","g","o">>) /\ Under(i, Header)
        ALogoLike(i) == IsTag(i, "a") /\ Includes(doc[i].cls, <<"l","o","g","o">>)
        ABrandLike(i) == IsTag(i, "a") /\ Includes(doc[i].cls, <<"b","r","a","n","d">>)
        Img(i) == IsTag(i, "img")
    IN  CASE sel = "a.brand" -> {i \in Idx : ABrand(i)}
          [] sel = "a.navbar-brand" -> {i \in Idx : ANavbar(i)}
          [] sel = ".brand" -> {i \in Idx : DotBrand(i)}
          [] sel = ".logo" -> {i \in Idx : DotLogo(i)}
          [] sel = "header .logo" -> {i \in Idx : HeaderLogo(i)}
          [] sel = "header h1" -> {i \in Idx : IsTag(i, "h1") /\ Under(i, Header)}
          [] sel = "header a" -> {i \in Idx : IsTag(i, "a") /\ Under(i, Header)}
          [] sel = "a[class*=logo]" -> {i \in Idx : ALogoLike(i)}
          [] sel = "a[class*=brand]" -> {i \in Idx : ABrandLike(i)}
          [] sel = "a.brand img" -> {i \in Idx : Img(i) /\ Under(i, ABrand)}
          [] sel = "a.navbar-brand img" -> {i \in Idx : Img(i) /\ Under(i, ANavbar)}
          [] sel = ".brand img" -> {i \in Idx : Img(i) /\ Under(i, DotBrand)}
          [] sel = ".logo img" -> {i \in Idx : Img(i) /\ Under(i, DotLogo)}
          [] sel = "header .logo img" -> {i \in Idx : Img(i) /\ Under(i, HeaderLogo)}
          [] sel = "a[class*=logo] img" -> {i \in Idx : Img(i) /\ Under(i, ALogoLike)}
          [] sel = "a[class*=brand] img" -> {i \in Idx : Img(i) /\ Under(i, ABrandLike)}
          [] sel = "img[class*=logo]" -> {i \in Idx : Img(i) /\ Includes(doc[i].cls, <<"l","o",
                  "g","o">>)}
          [] sel = "img[alt*=logo]" -> {i \in Idx : Img(i) /\ Includes(doc[i].alt, <<"l","o",
                  "g","o">>)}
          [] sel = "img[alt*=Logo]" -> {i \in Idx : Img(i) /\ Includes(doc[i].alt, <<"L","o",
                  "g","o">>)}
          [] sel = "style" -> {i \in Idx : IsTag(i, "style")}
          [] sel = "title" -> {i \in Idx : IsTag(i, "title")}
          [] sel = "img" -> {i \in Idx : Img(i)}
          [] sel = "link[rel=stylesheet]" ->
                {i \in Idx : IsTag(i, "link") /\ doc[i].rel = <<"s","t","y","l","e","s","h","e","e","t">>}
          [] sel = "meta[name=description]" ->
                {i \in Idx : IsTag(i, "meta") /\ doc[i].name = <<"d","e","s","c","r","i","p","t","i","o","n">>}
          [] sel \in {"header", "footer", "nav", "section"} ->
                {i \in Idx : IsTag(i, sel)}
          [] sel = "div[class*=header]" ->
                {i \in Idx : IsTag(i, "div") /\ Includes(doc[i].cls, <<"h","e","a","d","e","r">>)}
          [] sel = "div[class*=footer]" ->
                {i \in Idx : IsTag(i, "div") /\ Includes(doc[i].cls, <<"f","o","o","t","e","r">>)}
          [] sel = "div[class*=nav]" ->
                {i \in Idx : IsTag(i, "div") /\ Includes(doc[i].cls, <<"n","a","v">>)}
          [] sel = "div[class*=section]" ->
                {i \in Idx : IsTag(i, "div") /\ Includes(doc[i].cls, <<"s","e","c","t","i","o","n">>)}

\* $(selector).first(): the first match in document order, 0 when
\* .length is 0.
First(set) == IF set = {} THEN 0 ELSE CHOOSE i \in set : \A j \in set : i <= j

\* element.text(): the text nodes of the element and of its descendants,
\* in document order.
RECURSIVE TextFrom(_, _, _)
TextFrom(doc, root, j) ==
    IF j > Len(doc) THEN <<>>
    ELSE (IF j = root \/ root \in Ancestors(doc, j) THEN doc[j].text ELSE <<>>)
            \o TextFrom(doc, root, j + 1)

ElementText(doc, i) == TextFrom(doc, i, i)

\* $(selector).text(): the texts of the matched elements, in document
\* order.
RECURSIVE TextOfAll(_, _, _)
TextOfAll(doc, set, j) ==
    IF j > Len(doc) THEN <<>>
    ELSE (IF j \in set THEN ElementText(doc, j) ELSE <<>>)
            \o TextOfAll(doc, set, j + 1)

\* element.find(img).attr(alt): the alt of the first img below the
\* element, <<>> when there is no img or it has no alt.
FindImgAlt(doc, i) ==
    LET imgs == {j \in 1..Len(doc) : doc[j].tag = "img" /\ i \in Ancestors(doc, j)}
    IN  IF imgs = {} THEN <<>> ELSE doc[First(imgs)].alt

\* $(style).each(... inlineStyles.push($(element).html() || empty))
RECURSIVE StylesFrom(_, _)
StylesFrom(doc, j) ==
    IF j > Len(doc) THEN <<>>
    ELSE (IF doc[j].tag = "style" THEN <<doc[j].text>> ELSE <<>>)
            \o StylesFrom(doc, j + 1)

InlineStyles(doc) == StylesFrom(doc, 1)

(***************************************************************************)
(* The scrape-website GET handler                                          *)
(***************************************************************************)
NoUrl == <<>>
NoError == [kind |-> "none"]
\* let html; before its assignment
NoHtml == <<[tag |-> "undefined"]>>
NoResponse == [status |-> 0, kind |-> "none", html |-> NoHtml]

\* The proxies array of fetchViaProxy has four entries.
NumProxies == 4

Urls == { <<"h","t","t","p","s",":","/","/","e","x","a","m","p","l","e",".","c","o","m">> }

\* Pages the network can deliver, as the documents cheerio.load makes of
\* them. PageBadHref carries a stylesheet link whose href ("//") makes
\* new URL(href, origin) throw in the parser. The empty body is the empty
\* string.
PageA ==
    << Elem("title", 0, None, None, None, <<"A","c","m","e"," ","|"," ","H","o","m","e">>),
       Elem("a", 0, <<"b","r","a","n","d">>, None, None, <<"A","c","m","e">>) >>

PageB == << Elem("h1", 0, None, None, None, <<"B","o","l","t">>) >>

PageBadHref == << Link(<<"s","t","y","l","e","s","h","e","e","t">>, <<"/","/">>) >>

EmptyBody == <<>>

PageBodies == {PageA, PageB, PageBadHref}

\* The style block of the placeholder pages, its white space normalised.
FallbackStyle ==
    <<"b","o","d","y"," ","{"," ","f","o","n","t","-","f","a",
            "m","i","l","y",":"," ","A","r","i","a","l",","," ","s",
            "a","n","s","-","s","e","r","i","f",";"," ","m","a","r",
            "g","i","n",":"," ","0",";"," ","p","a","d","d","i","n",
            "g",":"," ","2","0","p","x",";"," ","}"," ",".","c","o",
            "n","t","a","i","n","e","r"," ","{"," ","m","a","x","-",
            "w","i","d","t","h",":"," ","8","0","0","p","x",";"," ",
            "m","a","r","g","i","n",":"," ","0"," ","a","u","t","o",
            ";"," ","}"," ",".","a","l","e","r","t"," ","{"," ","b",
            "a","c","k","g","r","o","u","n","d","-","c","o","l","o",
            "r",":"," ","#","f","8","d","7","d","a",";"," ","c","o",
            "l","o","r",":"," ","#","7","2","1","c","2","4",";"," ",
            "p","a","d","d","i","n","g",":"," ","1","0","p","x",";",
            " ","b","o","r","d","e","r","-","r","a","d","i","u","s",
            ":"," ","4","p","x",";"," ","m","a","r","g","i","n","-",
            "b","o","t","t","o","m",":"," ","2","0","p","x",";"," ",
            "}"," ",".","u","r","l"," ","{"," ","w","o","r","d","-",
            "b","r","e","a","k",":"," ","b","r","e","a","k","-","a",
            "l","l",";"," ","}">>

SimpleNotice ==
    <<"W","e"," ","w","e","r","e"," ","u","n","a","b","l","e",
            " ","t","o"," ","f","u","l","l","y"," ","s","c","r","a",
            "p","e"," ","t","h","e"," ","w","e","b","s","i","t","e",
            " ","d","u","e"," ","t","o"," ","s","e","c","u","r","i",
            "t","y"," ","r","e","s","t","r","i","c","t","i","o","n",
            "s",".">>

SupportNotice ==
    <<"P","l","e","a","s","e"," ","t","r","y"," ","u","s","i",
            "n","g"," ","a"," ","d","i","f","f","e","r","e","n","t",
            " ","U","R","L"," ","o","r"," ","c","o","n","t","a","c",
            "t"," ","s","u","p","p","o","r","t"," ","i","f"," ","t",
            "h","i","s"," ","i","s","s","u","e"," ","p","e","r","s",
            "i","s","t","s",".">>

SimpleRemark ==
    <<"T","h","i","s"," ","i","s"," ","a"," ","p","l","a","c",
            "e","h","o","l","d","e","r"," ","p","a","g","e"," ","g",
            "e","n","e","r","a","t","e","d"," ","w","h","e","n"," ",
            "d","i","r","e","c","t"," ","s","c","r","a","p","i","n",
            "g"," ","f","a","i","l","s",".">>

\* What fetchSimpleHtml builds for the url.
SimpleHtmlBody(u) ==
    << Elem("title", 0, None, None, None, <<"S","c","r","a","p","e","d"," ","f","r","o","m"," ">> \o u),
       Meta(<<"d","e","s","c","r","i","p","t","i","o","n">>, <<"T","h","i","s"," ","i","s"," ","a"," ","f","a","l","l","b","a","c","k"," ","p","a","g","e"," ","f","o","r"," ">> \o u),
       Elem("style", 0, None, None, None, FallbackStyle),
       Elem("div", 0, <<"c","o","n","t","a","i","n","e","r">>, None, None, None),
       Elem("div", 4, <<"a","l","e","r","t">>, None, None, None),
       Elem("p", 5, None, None, None, SimpleNotice),
       Elem("p", 5, None, None, None, SupportNotice),
       Elem("h1", 4, None, None, None, <<"F","a","l","l","b","a","c","k"," ","C","o","n","t","e","n","t"," ","f","o","r",":">>),
       Elem("p", 4, <<"u","r","l">>, None, None, u),
       Elem("p", 4, None, None, None, SimpleRemark) >>

\* Outcomes of axios.get(url, ...): a 2xx response resolves, anything else
\* rejects with an axios error (timeout, status outside 2xx, no response)
\* or another error.
DirectOutcomes ==
    [kind : {"ok"}, status : {200}, body : PageBodies]
      \cup [kind : {"timeout", "noresponse", "other"}, status : {0},
            body : {EmptyBody}]
      \cup [kind : {"status"}, status : {403, 500}, body : {EmptyBody}]

\* Outcomes of axios.get(proxyUrl, config): resolved with status 200 and a
\* body, resolved with status 200 and an empty body, resolved with another
\* 2xx status, or rejected.
ProxyOutcomes ==
    [kind : {"ok"}, status : {200}, body : PageBodies \cup {EmptyBody}]
      \cup [kind : {"ok"}, status : {204}, body : {PageA}]
      \cup [kind : {"timeout", "status"}, status : {0}, body : {EmptyBody}]

\* const useProxy = ...; if (useProxy) { fetchViaProxy } else { direct }
SkipsDirectAlt(p) == FALSE
SkipsDirect(p) == p

\* The try block around axios.get(url): reaching html = response.data.
DirectSucceededAlt(o) == FALSE
DirectSucceeded(o) == o.kind = "ok"

\* if (response.status === 200 && response.data)
ProxyAcceptsAlt(o) == o.kind = "ok" /\ o.status = 200 /\ o.body = PageB
ProxyAccepts(o) == o.kind = "ok" /\ o.status = 200 /\ o.body # EmptyBody

\* for (const proxyUrl of proxies): the entry tried after entry i.
NextProxyAlt(i) == IF i = 2 THEN 2 ELSE i + 1
NextProxy(i) == i + 1

\* new URL(url).origin of a url without user, port or query: the scheme
\* and the host.
Origin(u) ==
    LET a == IndexFrom(u, 1, <<":","/","/">>)
        b == IndexFrom(u, a + 3, <<"/">>)
    IN  IF b = 0 THEN u ELSE SubSeq(u, 1, b - 1)

Letters == {LowerChars[i] : i \in 1..Len(LowerChars)}

SchemeChars ==
    Letters \cup {"0","1","2","3","4","5","6","7","8","9","+","-","."}

\* Length of the scheme the reference starts with, 0 when it has none: a
\* letter and then letters, digits, + - . up to a colon.
SchemeLen(ref) ==
    LET c == IndexFrom(ref, 1, <<":">>)
    IN  IF /\ c > 1
           /\ Lower(ref[1]) \in Letters
           /\ \A k \in 1..(c - 1) : Lower(ref[k]) \in SchemeChars
        THEN c - 1 ELSE 0

\* new URL(ref, origin) throws: a reference that starts an authority and
\* has no host.
ResolveThrows(ref) ==
    /\ SchemeLen(ref) = 0
    /\ StartsWith(ref, <<"/","/">>)
    /\ \A k \in 1..Len(ref) : ref[k] = "/"

\* new URL(ref, origin).toString() for references whose host is in lower
\* case and whose path needs no encoding: a reference with a scheme stands
\* for itself, its scheme in lower case; one that starts with // takes the
\* scheme of the origin, one that starts with / the origin, and any other
\* is a path below the root of the origin.
Resolve(ref, origin) ==
    LET n == SchemeLen(ref)
    IN  IF n > 0
        THEN [k \in 1..Len(ref) |-> IF k <= n THEN Lower(ref[k]) ELSE ref[k]]
        ELSE IF StartsWith(ref, <<"/","/">>)
        THEN SubSeq(origin, 1, IndexFrom(origin, 1, <<":","/","/">>)) \o ref
        ELSE IF StartsWith(ref, <<"/">>)
        THEN origin \o ref
        ELSE origin \o <<"/">> \o ref

\* if (href.startsWith('http')) push(href) else push(new URL(href, baseUrl.origin).toString())
Absolutize(ref, u) ==
    IF StartsWith(ref, <<"h","t","t","p">>) THEN ref ELSE Resolve(ref, Origin(u))

\* $(element).attr('href') of a link, $(element).attr('src') of an img.
RefOf(e) == IF e.tag = "link" THEN e.href ELSE e.src

\* The each() loops over the links and over the images: the references
\* that are not empty, made absolute, in document order.
RECURSIVE UrlsFrom(_, _, _, _)
UrlsFrom(doc, set, u, j) ==
    IF j > Len(doc) THEN <<>>
    ELSE (IF j \in set /\ RefOf(doc[j]) # <<>>
          THEN <<Absolutize(RefOf(doc[j]), u)>> ELSE <<>>)
            \o UrlsFrom(doc, set, u, j + 1)

cssLinks(doc, u) == UrlsFrom(doc, Select(doc, "link[rel=stylesheet]"), u, 1)

images(doc, u) == UrlsFrom(doc, Select(doc, "img"), u, 1)

\* $('title').text() || ''
TitleOf(doc) == TextOfAll(doc, Select(doc, "title"), 1)

\* $('meta[name="description"]').attr('content') || ''
DescriptionOf(doc) ==
    LET m == Select(doc, "meta[name=description]")
    IN  IF m = {} THEN <<>> ELSE doc[First(m)].content

hasHeader(doc) ==
    Select(doc, "header") # {} \/ Select(doc, "div[class*=header]") # {}

hasFooter(doc) ==
    Select(doc, "footer") # {} \/ Select(doc, "div[class*=footer]") # {}

hasNavigation(doc) ==
    Select(doc, "nav") # {} \/ Select(doc, "div[class*=nav]") # {}

sectionCount(doc) ==
    Cardinality(Select(doc, "section"))
        + Cardinality(Select(doc, "div[class*=section]"))

\* The scrapedContent object of GET.
ScrapedContentOf(doc, u) ==
    [html |-> doc,
     css |-> cssLinks(doc, u) \o InlineStyles(doc),
     images |-> images(doc, u),
     title |-> TitleOf(doc),
     description |-> DescriptionOf(doc),
     url |-> u,
     structure |-> [header |-> hasHeader(doc), footer |-> hasFooter(doc),
                    navigation |-> hasNavigation(doc),
                    sections |-> sectionCount(doc)]]

\* cheerio.load and the extraction of links and images; new URL() throws
\* on a reference it cannot resolve.
ParseThrows(doc) ==
    \E j \in Select(doc, "link[rel=stylesheet]") \cup Select(doc, "img") :
        /\ RefOf(doc[j]) # <<>>
        /\ ~StartsWith(RefOf(doc[j]), <<"h","t","t","p">>)
        /\ ResolveThrows(RefOf(doc[j]))

\* The catch block at the end of GET.
ErrorResponse(err) ==
    IF err.kind = "timeout" THEN [status |-> 504, kind |-> "timeout", html |-> NoHtml]
    ELSE IF err.kind = "status"
         THEN [status |-> err.status, kind |-> "upstream-status", html |-> NoHtml]
    ELSE IF err.kind = "noresponse"
         THEN [status |-> 502, kind |-> "no-response", html |-> NoHtml]
    ELSE [status |-> 500, kind |-> "generic", html |-> NoHtml]

LogEntry(level, msg, idx) == [level |-> level, msg |-> msg, idx |-> idx]

\* GET up to the first await: parameter check and choice of the path.
GetRequest(u, p) ==
    /\ gPc \in {"idle", "done"}
    /\ gUrl' = u
    /\ gUseProxy' = p
    /\ gAttempts' = <<>>
    /\ gDirectError' = NoError
    /\ gHtml' = NoHtml
    /\ IF u = NoUrl
       THEN /\ gPc' = "done"
            /\ gIdx' = 0
            /\ gLog' = <<>>
            /\ gResponse' = [status |-> 400, kind |-> "url-required", html |-> NoHtml]
       ELSE /\ gResponse' = NoResponse
            /\ IF SkipsDirect(p)
               THEN /\ gPc' = "proxy"
                    /\ gIdx' = 1
                    /\ gLog' = <<LogEntry("info", "Attempting to scrape website", 0),
                                 LogEntry("info", "Attempting to fetch via proxy", 0)>>
               ELSE /\ gPc' = "direct"
                    /\ gIdx' = 0
                    /\ gLog' = <<LogEntry("info", "Attempting to scrape website", 0)>>
    /\ UNCHANGED <<pipeVars, wizVars, lightVars, clientVars, serverVars>>

\* await axios.get(url, ...) and what follows it up to the next await.
DirectFetch(o) ==
    /\ gPc = "direct"
    /\ gAttempts' = Append(gAttempts, [path |-> "direct", idx |-> 0, outcome |-> o])
    /\ IF DirectSucceeded(o)
       THEN /\ gHtml' = o.body
            /\ gPc' = "parse"
            /\ gLog' = Append(gLog, LogEntry("info", "Successfully fetched directly", 0))
            /\ UNCHANGED <<gIdx, gDirectError>>
       ELSE /\ gDirectError' = o
            /\ gPc' = "proxy"
            /\ gIdx' = 1
            /\ gLog' = gLog \o <<LogEntry("warn", "Direct fetch failed, trying proxy as fallback", 0),
                                 LogEntry("info", "Attempting to fetch via proxy", 0)>>
            /\ UNCHANGED gHtml
    /\ UNCHANGED <<gUrl, gUseProxy, gResponse>>
    /\ UNCHANGED <<pipeVars, wizVars, lightVars, clientVars, serverVars>>

\* One iteration of the loop of fetchViaProxy.
ProxyFetch(o) ==
    /\ gPc = "proxy"
    /\ gIdx <= NumProxies
    /\ gAttempts' = Append(gAttempts, [path |-> "proxy", idx |-> gIdx, outcome |-> o])
    /\ IF ProxyAccepts(o)
       THEN /\ gHtml' = o.body
            /\ gPc' = "parse"
            /\ gLog' = gLog \o <<LogEntry("info", "Trying proxy", gIdx),
                                 LogEntry("info", "Successfully fetched via proxy", gIdx),
                                 LogEntry("info", "Successfully fetched website content via proxy", 0)>>
            /\ UNCHANGED gIdx
       ELSE /\ gIdx' = NextProxy(gIdx)
            /\ gLog' = IF o.kind = "ok"
                       THEN Append(gLog, LogEntry("info", "Trying proxy", gIdx))
                       ELSE gLog \o <<LogEntry("info", "Trying proxy", gIdx),
                                      LogEntry("warn", "Proxy fetch failed", gIdx)>>
            /\ UNCHANGED <<gHtml, gPc>>
    /\ UNCHANGED <<gUrl, gUseProxy, gDirectError, gResponse>>
    /\ UNCHANGED <<pipeVars, wizVars, lightVars, clientVars, serverVars>>

\* After the loop: return await this.fetchSimpleHtml(url), which builds a
\* placeholder page and cannot fail.
SimpleHtml ==
    /\ gPc = "proxy"
    /\ gIdx > NumProxies
    /\ gHtml' = SimpleHtmlBody(gUrl)
    /\ gPc' = "parse"
    /\ gLog' = gLog \o <<LogEntry("info", "All proxies failed, trying simple HTML scraper", 0),
                         LogEntry("info", "Successfully fetched website content via proxy", 0)>>
    /\ UNCHANGED <<gUrl, gUseProxy, gIdx, gAttempts, gDirectError, gResponse>>
    /\ UNCHANGED <<pipeVars, wizVars, lightVars, clientVars, serverVars>>

\* The parsing half of GET and its response, or the catch block.
ParseAndRespond ==
    /\ gPc = "parse"
    /\ gPc' = "done"
    /\ IF ParseThrows(gHtml)
       THEN /\ gResponse' = ErrorResponse([kind |-> "other", status |-> 0, body |-> EmptyBody])
            /\ gLog' = Append(gLog, LogEntry("error", "Error scraping website", 0))
       ELSE /\ gResponse' = [status |-> 200, kind |-> "content", html |-> gHtml,
                            content |-> ScrapedContentOf(gHtml, gUrl)]
            /\ gLog' = gLog
    /\ UNCHANGED <<gUrl, gUseProxy, gIdx, gAttempts, gDirectError, gHtml>>
    /\ UNCHANGED <<pipeVars, wizVars, lightVars, clientVars, serverVars>>

ScrapeIdle ==
    /\ gPc = "idle"
    /\ gUrl = NoUrl
    /\ gUseProxy = FALSE
    /\ gIdx = 0
    /\ gAttempts = <<>>
    /\ gDirectError = NoError
    /\ gHtml = NoHtml
    /\ gResponse = NoResponse
    /\ gLog = <<>>

NextScrape ==
    \/ \E u \in Urls \cup {NoUrl}, p \in BOOLEAN : GetRequest(u, p)
    \/ \E o \in DirectOutcomes : DirectFetch(o)
    \/ \E o \in ProxyOutcomes : ProxyFetch(o)
    \/ SimpleHtml
    \/ ParseAndRespond


(***************************************************************************)
(* Inputs of the parser                                                    *)
(***************************************************************************)
ParserUrls ==
    { <<"h","t","t","p","s",":","/","/","e","x","a","m","p","l","e",".","c","o","m">>, <<"h","t","t","p",":","/","/","s","h","o","p",".","e","x","a","m","p","l","e",".","o","r","g","/","c","a","t","a","l","o","g","/","i","n","d","e","x",".","h","t","m","l">> }

Stylesheet == <<"s","t","y","l","e","s","h","e","e","t">>

\* The href values of a stylesheet link.
LinkRefs ==
    { <<"/","c","s","s","/","a",".","c","s","s">>, <<"c","s","s","/","a",".","c","s","s">>, <<"h","t","t","p","s",":","/","/","c","d","n",".","e","x","a","m","p","l","e",".","n","e","t","/","a",".","c","s","s">>,
      <<"/","/","c","d","n",".","e","x","a","m","p","l","e",".","n","e","t","/","a",".","c","s","s">>, <<"h","t","t","p","d","o","c","s","/","m","a","i","n",".","c","s","s">>,
      <<"H","T","T","P","S",":","/","/","c","d","n",".","e","x","a","m","p","l","e",".","n","e","t","/","b",".","c","s","s">> }

LinkParts ==
    { <<>>, <<Link(Stylesheet, None)>>,
      <<Link(Stylesheet, <<"/","c","s","s","/","a",".","c","s","s">>), Link(<<"i","c","o","n">>, <<"/","f","a","v","i","c","o","n",".","i","c","o">>),
        Link(Stylesheet, <<"c","s","s","/","b",".","c","s","s">>)>> }
      \cup {<<Link(Stylesheet, r)>> : r \in LinkRefs}

StyleBlock(text) == Elem("style", 0, None, None, None, text)

\* Style blocks before and after the links of a page.
StyleParts ==
    { <<<<>>, <<>>>>,
      <<<<StyleBlock(<<"b","o","d","y","{","c","o","l","o","r",":","#","1","1","2","2","3","3",";","}">>)>>, <<>>>>,
      <<<<>>, <<StyleBlock(<<"h","1","{","m","a","r","g","i","n",":","0",";","}">>)>>>>,
      <<<<StyleBlock(<<"b","o","d","y","{","c","o","l","o","r",":","#","1","1","2","2","3","3",";","}">>)>>, <<StyleBlock(<<"h","1","{","m","a","r","g","i","n",":","0",";","}">>)>>>> }

Image(src) == Elem("img", 0, None, None, src, None)

ImageParts ==
    { <<>>, <<Image(<<"/","i","m","g","/","l","o","g","o",".","p","n","g">>)>>,
      <<Image(<<"i","m","g","/","a",".","p","n","g">>), Image(None), Image(<<"h","t","t","p","s",":","/","/","e","x","a","m","p","l","e",".","c","o","m","/","b",".","p","n","g">>)>>,
      <<Image(<<"d","a","t","a",":","i","m","a","g","e","/","p","n","g",";","b","a","s","e","6","4",",","A","A">>)>>, <<Image(<<"h","t","t","p","-","l","o","g","o",".","p","n","g">>)>> }

Block(tag, cls) == Elem(tag, 0, cls, None, None, None)

\* The elements the structure of a page is read from.
StructureParts ==
    { <<>>,
      <<Block("header", None)>>,
      <<Block("div", <<"s","i","t","e","-","h","e","a","d","e","r">>)>>,
      <<Block("span", <<"p","a","g","e","-","h","e","a","d","e","r">>)>>,
      <<Block("footer", None), Block("nav", None)>>,
      <<Block("div", <<"f","o","o","t","e","r","-","m","a","i","n">>), Block("div", <<"n","a","v","b","a","r">>)>>,
      <<Block("ul", <<"n","a","v">>)>>,
      <<Block("section", None), Block("section", None)>>,
      <<Block("div", <<"s","e","c","t","i","o","n">>), Block("section", None)>>,
      <<Block("section", <<"s","e","c","t","i","o","n"," ","h","e","r","o">>)>>,
      <<Block("article", <<"s","e","c","t","i","o","n","s">>)>>,
      <<Block("div", <<"H","e","a","d","e","r">>)>> }

ParserPages ==
    {s[1] \o l \o s[2] \o i \o b :
        s \in StyleParts, l \in LinkParts, i \in ImageParts,
        b \in StructureParts}

\* A direct fetch that delivers one of the pages.
ParserOutcomes == [kind : {"ok"}, status : {200}, body : ParserPages \ {EmptyBody}]

NextParse ==
    \/ \E u \in ParserUrls : GetRequest(u, FALSE)
    \/ \E o \in ParserOutcomes : DirectFetch(o)
    \/ ParseAndRespond

(***************************************************************************)
(* BrandAnalyzer                                                           *)
(***************************************************************************)
\* Number of characters from position i on that satisfy a hex digit.
RECURSIVE HexRun(_, _)
HexRun(s, i) ==
    IF i <= Len(s) /\ s[i] \in HexDigits THEN 1 + HexRun(s, i + 1) ELSE 0

\* Position of the first occurrence of character c at or after i, 0 if none.
CharFrom(s, i, c) == FirstOf({k \in i..Len(s) : s[k] = c})

\* Length of the match of fn a? \( [^)]+ \) at position i, 0 if none
\* (fn is rgb or hsl, compared ignoring case).
FuncColorLen(s, i, fn) ==
    IF ~MatchAt(s, i, fn) THEN 0
    ELSE LET a == i + Len(fn)
             open == IF a <= Len(s) /\ Lower(s[a]) = "a" /\ a + 1 <= Len(s)
                        /\ s[a + 1] = "("
                     THEN a + 1
                     ELSE IF a <= Len(s) /\ s[a] = "(" THEN a ELSE 0
             close == IF open = 0 THEN 0 ELSE CharFrom(s, open + 1, ")")
         IN  IF open = 0 \/ close < open + 2 THEN 0 ELSE close - i + 1

\* Length of the match of colorRegex at position i, 0 if none:
\* /#[0-9a-f]{3,6}|rgba?\([^)]+\)|hsla?\([^)]+\)/gi
ColorLenAt(s, i) ==
    IF s[i] = "#" /\ HexRun(s, i + 1) >= 3
    THEN 1 + (IF HexRun(s, i + 1) > 6 THEN 6 ELSE HexRun(s, i + 1))
    ELSE IF FuncColorLen(s, i, <<"r","g","b">>) > 0 THEN FuncColorLen(s, i, <<"r","g","b">>)
    ELSE FuncColorLen(s, i, <<"h","s","l">>)

\* allCss.match(colorRegex) || []
RECURSIVE ColorMatchesFrom(_, _)
ColorMatchesFrom(s, i) ==
    LET j == FirstOf({k \in i..Len(s) : ColorLenAt(s, k) > 0})
    IN  IF j = 0 THEN <<>>
        ELSE <<SubSeq(s, j, j + ColorLenAt(s, j) - 1)>>
                \o ColorMatchesFrom(s, j + ColorLenAt(s, j))

ColorMatches(s) == ColorMatchesFrom(s, 1)

\* Number of white-space characters from position i on.
RECURSIVE SpaceRun(_, _)
SpaceRun(s, i) ==
    IF i <= Len(s) /\ s[i] \in WhiteSpace THEN 1 + SpaceRun(s, i + 1) ELSE 0

\* Length of the match of /prop\s*:\s*([^;]+)/gi at position i, 0 if none:
\* the property name, the colon and everything up to the next semicolon
\* (or the end of the text), which must be at least one character.
DeclLenAt(s, i, prop) ==
    IF ~MatchAt(s, i, prop) THEN 0
    ELSE LET colon == i + Len(prop) + SpaceRun(s, i + Len(prop))
             semi == CharFrom(s, colon + 1, ";")
             last == IF semi = 0 THEN Len(s) ELSE semi - 1
         IN  IF colon > Len(s) \/ s[colon] # ":" \/ last <= colon THEN 0
             ELSE last - i + 1

\* allCss.match(regex) || [] for such a declaration pattern
RECURSIVE DeclMatchesFrom(_, _, _)
DeclMatchesFrom(s, i, prop) ==
    LET j == FirstOf({k \in i..Len(s) : DeclLenAt(s, k, prop) > 0})
    IN  IF j = 0 THEN <<>>
        ELSE <<SubSeq(s, j, j + DeclLenAt(s, j, prop) - 1)>>
                \o DeclMatchesFrom(s, j + DeclLenAt(s, j, prop), prop)

\* fontNames: match.split(colon)[1].trim() of every match
DeclValues(s, prop) ==
    LET ms == DeclMatchesFrom(s, 1, prop)
    IN  [k \in 1..Len(ms) |-> Trim(SplitSecond(ms[k], <<":">>))]

\* Number of entries of seq equal to x (colorCounts[color], fontCounts[font]).
CountOf(seq, x) == Cardinality({k \in 1..Len(seq) : seq[k] = x})

\* The keys of the counts object in insertion order: every distinct entry
\* of seq at the place of its first occurrence.
RECURSIVE DistinctKeys(_)
DistinctKeys(seq) ==
    IF seq = <<>> THEN <<>>
    ELSE LET init == DistinctKeys(SubSeq(seq, 1, Len(seq) - 1))
             x == seq[Len(seq)]
         IN  IF \E k \in 1..Len(init) : init[k] = x THEN init ELSE Append(init, x)

\* Object.entries(counts).sort((a, b) => b[1] - a[1]).map(e => e[0]):
\* a stable sort by decreasing count.
RECURSIVE SortByCount(_, _)
SortByCount(keys, seq) ==
    IF keys = <<>> THEN <<>>
    ELSE LET best == CHOOSE k \in 1..Len(keys) :
                        /\ \A j \in 1..Len(keys) :
                              CountOf(seq, keys[j]) <= CountOf(seq, keys[k])
                        /\ \A j \in 1..(k - 1) :
                              CountOf(seq, keys[j]) < CountOf(seq, keys[k])
             rest == [j \in 1..(Len(keys) - 1) |->
                        IF j < best THEN keys[j] ELSE keys[j + 1]]
         IN  <<keys[best]>> \o SortByCount(rest, seq)

SortedByFrequency(seq) == SortByCount(DistinctKeys(seq), seq)

\* Array.prototype.filter
RECURSIVE Filter(_, _)
Filter(seq, keep) ==
    IF seq = <<>> THEN <<>>
    ELSE (IF Head(seq) \in keep THEN <<Head(seq)>> ELSE <<>>)
            \o Filter(Tail(seq), keep)

isWhiteOrTransparent(color) ==
    \/ Includes(color, <<"r","g","b","a">>) /\ Includes(color, <<"0",")">>)
    \/ color \in {<<"#","f","f","f">>, <<"#","f","f","f","f","f","f">>, <<"w","h","i","t","e">>}

\* parseInt(c, 16) of one hex digit
HexVal(c) ==
    CASE Lower(c) = "a" -> 10 [] Lower(c) = "b" -> 11 [] Lower(c) = "c" -> 12
      [] Lower(c) = "d" -> 13 [] Lower(c) = "e" -> 14 [] Lower(c) = "f" -> 15
      [] c = "0" -> 0 [] c = "1" -> 1 [] c = "2" -> 2 [] c = "3" -> 3
      [] c = "4" -> 4 [] c = "5" -> 5 [] c = "6" -> 6 [] c = "7" -> 7
      [] c = "8" -> 8 [] c = "9" -> 9

\* parseInt(hex.substring(a, b), 16) for the at most two digits at
\* positions a+1..b of hex; -1 stands for NaN (no digit there).
ParseHexPair(hex, a) ==
    IF a + 1 > Len(hex) THEN -1
    ELSE IF a + 2 > Len(hex) THEN HexVal(hex[a + 1])
    ELSE 16 * HexVal(hex[a + 1]) + HexVal(hex[a + 2])

isLightColorAlt(color) ==
    IF StartsWith(color, <<"#">>)
    THEN LET raw == Tail(color)
             hex == IF Len(raw) = 3
                    THEN <<raw[1], raw[1], raw[2], raw[2], raw[3], raw[3]>>
                    ELSE raw
             r == ParseHexPair(hex, 0)
             g == ParseHexPair(hex, 2)
             b == ParseHexPair(hex, 4)
         IN  /\ r >= 0 /\ g >= 0 /\ b >= 0
             /\ r * 299 + g * 587 + b * 114 >= 128 * 1000
    ELSE FALSE

isLightColor(color) ==
    IF StartsWith(color, <<"#">>)
    THEN LET raw == Tail(color)
             hex == IF Len(raw) = 3
                    THEN <<raw[1], raw[1], raw[2], raw[2], raw[3], raw[3]>>
                    ELSE raw
             r == ParseHexPair(hex, 0)
             g == ParseHexPair(hex, 2)
             b == ParseHexPair(hex, 4)
         IN  /\ r >= 0 /\ g >= 0 /\ b >= 0
             /\ r * 299 + g * 587 + b * 114 > 128 * 1000
    ELSE FALSE

DefaultColors ==
    [primary |-> <<"#","3","1","8","2","C","E">>, secondary |-> <<"#","4","2","9","9","E","1">>,
     background |-> <<"#","F","F","F","F","F","F">>, text |-> <<"#","1","A","2","0","2",
             "C">>, accent |-> <<"#","E","D","8","9","3","6">>]

\* The i-th entry of seq if there is one, else the value already there.
PickOr(seq, i, dflt) == IF Len(seq) >= i THEN seq[i] ELSE dflt

extractColors(content) ==
    LET allCss == Join(InlineStyles(content.html.elems), <<" ">>)
        colorMatches == ColorMatches(allCss)
        sortedColors == SortedByFrequency(colorMatches)
        white == {c \in {sortedColors[k] : k \in 1..Len(sortedColors)} :
                    isWhiteOrTransparent(c)}
        all == {sortedColors[k] : k \in 1..Len(sortedColors)}
        nonWhiteColors == Filter(sortedColors, all \ white)
        lightColors == Filter(sortedColors,
                              {c \in all \ white : isLightColor(c)})
        darkColors == Filter(sortedColors,
                             {c \in all \ white : ~isLightColor(c)})
    IN  [primary |-> PickOr(nonWhiteColors, 1, DefaultColors.primary),
         secondary |-> PickOr(nonWhiteColors, 2, DefaultColors.secondary),
         accent |-> PickOr(nonWhiteColors, 3, DefaultColors.accent),
         background |-> PickOr(lightColors, 1, DefaultColors.background),
         text |-> PickOr(darkColors, 1, DefaultColors.text)]

DefaultTypography == [primary |-> <<"S","y","s","t","e","m","-","u","i",","," ","s","a","n","s",
        "-","s","e","r","i","f">>, secondary |-> <<>>]

extractTypography(content) ==
    LET allCss == Join(InlineStyles(content.html.elems), <<" ">>)
        fontNames == DeclValues(allCss, <<"f","o","n","t","-","f","a","m","i","l","y">>)
        sortedFonts == SortedByFrequency(fontNames)
    IN  [primary |-> PickOr(sortedFonts, 1, DefaultTypography.primary),
         secondary |-> PickOr(sortedFonts, 2, DefaultTypography.secondary)]

potentialBrandElements ==
    <<"a.brand", "a.navbar-brand", ".brand", ".logo", "header .logo",
      "header h1", "header a", "a[class*=logo]", "a[class*=brand]">>

logoSelectors ==
    <<"a.brand img", "a.navbar-brand img", ".brand img", ".logo img",
      "header .logo img", "a[class*=logo] img", "a[class*=brand] img",
      "img[class*=logo]", "img[alt*=logo]", "img[alt*=Logo]">>

\* if (text && text.length < 30), if (alt && alt.length < 30)
MaxNameLen == 30

AcceptableNameAlt(s) == s # <<>> /\ Len(s) <= MaxNameLen
AcceptableName(s) == s # <<>> /\ Len(s) < MaxNameLen

\* The loop over potentialBrandElements from selector k on: the brand name
\* found, <<>> if the loop ends without one.
RECURSIVE BrandNameFrom(_, _)
BrandNameFrom(doc, k) ==
    IF k > Len(potentialBrandElements) THEN <<>>
    ELSE LET element == First(Select(doc, potentialBrandElements[k]))
         IN  IF element = 0 THEN BrandNameFrom(doc, k + 1)
             ELSE IF AcceptableName(Trim(ElementText(doc, element)))
                  THEN Trim(ElementText(doc, element))
             ELSE IF AcceptableName(FindImgAlt(doc, element))
                  THEN FindImgAlt(doc, element)
             ELSE BrandNameFrom(doc, k + 1)

\* content.title.split(bar)[0].split(dash)[0].trim()
NameFromTitle(title) ==
    Trim(SplitHead(SplitHead(title, <<" ","|"," ">>), <<" ","-"," ">>))

\* The loop over logoSelectors from selector k on: the src of the first
\* selector's first element that has one, <<>> (undefined) if none.
RECURSIVE LogoFrom(_, _)
LogoFrom(doc, k) ==
    IF k > Len(logoSelectors) THEN <<>>
    ELSE LET element == First(Select(doc, logoSelectors[k]))
         IN  IF element # 0 /\ doc[element].src # <<>> THEN doc[element].src
             ELSE LogoFrom(doc, k + 1)

\* The value undefined where a text is expected.
Undefined == <<"undefined">>

\* Object.entries(counts).sort(...).map(e => e[0])[0] of the values of a
\* declaration, <<>> (undefined) when there is none.
MostCommonValue(allCss, prop) ==
    PickOr(SortedByFrequency(DeclValues(allCss, prop)), 1, <<>>)

\* $('button, .btn, [class*="button"]')
Buttons(doc) ==
    {i \in 1..Len(doc) :
        \/ doc[i].tag = "button"
        \/ HasClass(doc[i].cls, <<"b","t","n">>)
        \/ Includes(doc[i].cls, <<"b","u","t","t","o","n">>)}

\* The elements of a document carry no style attribute, so
\* $(element).css('border-radius') is undefined for every button and each
\* one counts as square: roundedCount (0) > squareCount is false.
ButtonStyleOf(doc) == IF Buttons(doc) = {} THEN <<>> ELSE <<"s","q","u","a","r","e">>

extractStyleElements(content) ==
    LET allCss == Join(InlineStyles(content.html.elems), <<" ">>)
    IN  [borderRadius |->
            MostCommonValue(allCss, <<"b","o","r","d","e","r","-","r","a","d","i","u","s">>),
         buttonStyle |-> ButtonStyleOf(content.html.elems)]

\* What the catch block of analyzeBrand returns.
CatchDefaultBrand ==
    [name |-> <<"U","n","k","n","o","w","n"," ","B","r","a","n","d">>,
     logo |-> <<>>,
     colors |-> [primary |-> <<"#","3","1","8","2","C","E">>,
                 secondary |-> <<"#","4","2","9","9","E","1">>,
                 background |-> <<"#","F","F","F","F","F","F">>,
                 text |-> <<"#","1","A","2","0","2","C">>,
                 accent |-> <<>>],
     typography |-> [primary |-> <<"S","y","s","t","e","m","-","u","i",","," ","s","a","n","s","-","s","e","r","i","f">>,
                     secondary |-> <<>>],
     style |-> [borderRadius |-> <<>>, buttonStyle |-> <<>>]]

\* The only statement of the try block that can throw on a content whose
\* html is a document: scrapedContent.title.split(..) when the selector
\* loop found no name and title is undefined.
NameSubPassThrows(content) ==
    BrandNameFrom(content.html.elems, 1) = <<>> /\ content.title = Undefined

analyzeBrand(content) ==
    LET found == BrandNameFrom(content.html.elems, 1)
    IN  IF NameSubPassThrows(content) THEN CatchDefaultBrand
        ELSE [name |-> IF found # <<>> THEN found
                       ELSE NameFromTitle(content.title),
              logo |-> LogoFrom(content.html.elems, 1),
              colors |-> extractColors(content),
              typography |-> extractTypography(content),
              style |-> extractStyleElements(content)]

(***************************************************************************)
(* WebsiteRebrander                                                        *)
(***************************************************************************)
\* encodeURIComponent of one character: letters, digits and the marks
\* - _ . ! ~ * ( ) stay, the other characters become their percent escape.
EncodeChar(c) ==
    CASE c = " " -> <<"%","2","0">> [] c = "\n" -> <<"%","0","A">> [] c = "#" -> <<"%","2","3">>
      [] c = "$" -> <<"%","2","4">> [] c = "%" -> <<"%","2","5">> [] c = "&" -> <<"%","2","6">>
      [] c = "+" -> <<"%","2","B">> [] c = "," -> <<"%","2","C">> [] c = "/" -> <<"%","2","F">>
      [] c = ":" -> <<"%","3","A">> [] c = ";" -> <<"%","3","B">> [] c = "=" -> <<"%","3","D">>
      [] c = "?" -> <<"%","3","F">> [] c = "{" -> <<"%","7","B">> [] c = "|" -> <<"%","7","C">>
      [] c = "}" -> <<"%","7","D">>
      [] OTHER -> <<c>>

RECURSIVE encodeURIComponent(_)
encodeURIComponent(s) ==
    IF s = <<>> THEN <<>> ELSE EncodeChar(Head(s)) \o encodeURIComponent(Tail(s))

\* fontName.replace(space, plus): a string pattern replaces its first
\* occurrence only.
ReplaceFirstSpace(s) ==
    LET p == CharFrom(s, 1, " ")
    IN  IF p = 0 THEN s ELSE [s EXCEPT ![p] = "+"]

\* The counters of the call before, as an object kept by the instance
\* instead of one made by each call would have them.
CarriedChanges ==
    IF pCalls = <<>>
    THEN [nameReplacements |-> 0, colorReplacements |-> 0,
          fontReplacements |-> 0, logoReplaced |-> FALSE]
    ELSE pCalls[Len(pCalls)].result.changes

\* const changes = { nameReplacements: 0, colorReplacements: 0,
\*                   fontReplacements: 0, logoReplaced: false }
InitialChanges ==
    [nameReplacements |-> 0, colorReplacements |-> 0, fontReplacements |-> 0,
     logoReplaced |-> FALSE]

\* "Replace brand name": every text node and every attribute value, when
\* both names are non-empty.
ReplaceName(doc, original, target) ==
    LET R(s) == ReplaceAllCI(s, original.name, target.name)
    IN  IF original.name # <<>> /\ target.name # <<>>
        THEN [i \in 1..Len(doc) |->
                [doc[i] EXCEPT !.text = R(@), !.cls = R(@), !.alt = R(@),
                               !.src = R(@)]]
        ELSE doc

\* changes.nameReplacements++ once for every text node and every attribute
\* whose value the replacement changed.
NameReplacementCount(doc, after) ==
    Cardinality({i \in 1..Len(doc) : doc[i].text # after[i].text})
      + Cardinality({i \in 1..Len(doc) : doc[i].cls # after[i].cls})
      + Cardinality({i \in 1..Len(doc) : doc[i].alt # after[i].alt})
      + Cardinality({i \in 1..Len(doc) : doc[i].src # after[i].src})

\* The loop over logoSelectors from selector k on: the element whose src
\* and alt are replaced, 0 if no selector matches.
RECURSIVE LogoElementFrom(_, _)
LogoElementFrom(doc, k) ==
    IF k > Len(logoSelectors) THEN 0
    ELSE IF Select(doc, logoSelectors[k]) # {}
         THEN First(Select(doc, logoSelectors[k]))
    ELSE LogoElementFrom(doc, k + 1)

\* "Replace logo": the element that gets the placeholder, 0 if none.
LogoTarget(doc, original) ==
    IF original.logo # <<>> THEN LogoElementFrom(doc, 1) ELSE 0

PlaceholderSrc(name) ==
    <<"h","t","t","p","s",":","/","/","v","i","a",".","p","l",
            "a","c","e","h","o","l","d","e","r",".","c","o","m","/",
            "1","5","0","x","5","0","/","3","1","8","2","C","E","/",
            "F","F","F","F","F","F","/","?","t","e","x","t","=">>
      \o encodeURIComponent(name)

ReplaceLogo(doc, original, target) ==
    LET element == LogoTarget(doc, original)
    IN  IF element = 0 THEN doc
        ELSE [doc EXCEPT ![element].src = PlaceholderSrc(target.name),
                         ![element].alt = target.name \o <<" ","l","o","g","o">>]

\* One replacement step on allCss: the text after
\* allCss.replace(regex, to), and what the code adds to the counter,
\* (allCss.match(regex) || []).length, taken after the replacement.
CssStep(acc, from, to) ==
    LET replaced == ReplaceAllCI(acc.css, from, to)
    IN  [css |-> replaced, count |-> acc.count + CountCI(replaced, from)]

\* "Replace colors in CSS": primary always, secondary and accent when both
\* brands have one.
ReplaceColors(allCss, count, original, target) ==
    LET p == CssStep([css |-> allCss, count |-> count],
                     original.colors.primary, target.colors.primary)
        s == IF original.colors.secondary # <<>> /\ target.colors.secondary # <<>>
             THEN CssStep(p, original.colors.secondary, target.colors.secondary)
             ELSE p
    IN  IF original.colors.accent # <<>> /\ target.colors.accent # <<>>
        THEN CssStep(s, original.colors.accent, target.colors.accent)
        ELSE s

\* "Replace typography in CSS": primary always, secondary when both brands
\* have one.
ReplaceFonts(allCss, count, original, target) ==
    LET p == CssStep([css |-> allCss, count |-> count],
                     original.typography.primary, target.typography.primary)
    IN  IF original.typography.secondary # <<>>
             /\ target.typography.secondary # <<>>
        THEN CssStep(p, original.typography.secondary,
                     target.typography.secondary)
        ELSE p

\* $(style).each((i, element) => $(element).html(allCss))
WriteStyles(doc, allCss) ==
    [i \in 1..Len(doc) |->
        IF doc[i].tag = "style" THEN [doc[i] EXCEPT !.text = allCss] ELSE doc[i]]

\* What is appended to head: the Google Fonts link for the first family of
\* target.typography.primary unless that is System-ui, then the
\* generator meta tag.
HeadAdditions(target) ==
    LET fontName == Trim(SplitHead(target.typography.primary, <<",">>))
    IN  (IF target.typography.primary # <<>> /\ fontName # <<"S","y","s","t","e","m","-","u","i">>
         THEN <<[kind |-> "fontLink", family |-> ReplaceFirstSpace(fontName)]>>
         ELSE <<>>)
          \o <<[kind |-> "generatorMeta", family |-> <<>>]>>

rebrandWebsite(content, original, target) ==
    LET doc0 == content.html.elems
        named == ReplaceName(doc0, original, target)
        logod == ReplaceLogo(named, original, target)
        allCss == Join(InlineStyles(logod), <<"\n">>)
        colored == ReplaceColors(allCss, InitialChanges.colorReplacements,
                                 original, target)
        fonted == ReplaceFonts(colored.css, InitialChanges.fontReplacements,
                               original, target)
    IN  [html |-> [elems |-> WriteStyles(logod, fonted.css),
                   head |-> content.html.head \o HeadAdditions(target)],
         css |-> fonted.css,
         originalUrl |-> content.url,
         changes |->
            [nameReplacements |-> InitialChanges.nameReplacements
                                    + NameReplacementCount(doc0, named),
             colorReplacements |-> colored.count,
             fontReplacements |-> fonted.count,
             logoReplaced |-> InitialChanges.logoReplaced
                                \/ LogoTarget(named, original) # 0]]

(***************************************************************************)
(* Inputs of the pipeline                                                  *)
(***************************************************************************)
\* Fragments of markup. Parents are relative to the fragment.
BrandFragments ==
    { <<>>,
      \* <a class="brand">Acme</a>
      <<Elem("a", 0, <<"b","r","a","n","d">>, None, None, <<"A","c","m","e">>)>>,
      \* <header><a class="navbar-brand"><img alt="Acme" src="/logo.png"></a></header>
      <<Elem("header", 0, None, None, None, None),
        Elem("a", 1, <<"n","a","v","b","a","r","-","b","r","a","n","d">>, None, None, None),
        Elem("img", 2, None, <<"A","c","m","e">>, <<"/","l","o","g","o",".","p","n","g">>, None)>>,
      \* <div class="logo">(34 characters)</div>, too long for a name
      <<Elem("div", 0, <<"l","o","g","o">>, None, None,
             <<"A","c","m","e"," ","C","o","r","p","o","r","a","t","i",
            "o","n"," ","I","n","t","e","r","n","a","t","i","o","n",
            "a","l"," ","L","t","d">>)>> }

TextFragments ==
    { <<>>,
      \* <p>Welcome to ACME</p>
      <<Elem("p", 0, None, None, None, <<"W","e","l","c","o","m","e"," ","t","o"," ","A","C","M",
            "E">>)>> }

StyleFragments ==
    { <<>>,
      <<Elem("style", 0, None, None, None,
             <<"b","o","d","y","{","c","o","l","o","r",":","#","1","1",
            "2","2","3","3",";","f","o","n","t","-","f","a","m","i",
            "l","y",":","A","r","i","a","l",";","}">>)>>,
      <<Elem("style", 0, None, None, None, <<"a","{","c","o","l","o","r",":","#","F","F","F",";","c",
            "o","l","o","r",":","#","a","b","c","}">>),
        Elem("style", 0, None, None, None, <<"h","1","{","c","o","l","o","r",":","#","A","B","C",";",
            "f","o","n","t","-","f","a","m","i","l","y",":"," ",";",
            "}">>)>> }

Titles == { <<>>, <<"A","c","m","e"," ","|"," ","H","o","m","e">> }

TitleFragment(t) ==
    IF t = <<>> THEN <<>> ELSE <<Elem("title", 0, None, None, None, t)>>

Shift(frag, off) ==
    [i \in 1..Len(frag) |->
        [frag[i] EXCEPT !.parent = IF @ = 0 THEN 0 ELSE @ + off]]

\* The ScrapedContent the parser makes of a page with these fragments:
\* title is $(title).text().
Content(t, b, x, s) ==
    LET head == TitleFragment(t)
    IN  [html |-> [elems |-> head \o Shift(b, Len(head))
                               \o Shift(x, Len(head) + Len(b))
                               \o Shift(s, Len(head) + Len(b) + Len(x)),
                   head |-> <<>>],
         title |-> t,
         url |-> "https://example.com"]

Contents ==
    {Content(t, b, x, s) : t \in Titles, b \in BrandFragments,
                           x \in TextFragments, s \in StyleFragments}

\* The page of the end-to-end example:
\* <a class="brand">Acme</a><style>body{color:#112233;font-family:Arial;}</style>
ExampleContent ==
    Content(<<>>, <<Elem("a", 0, <<"b","r","a","n","d">>, None, None, <<"A","c","m","e">>)>>, <<>>,
            <<Elem("style", 0, None, None, None,
                   <<"b","o","d","y","{","c","o","l","o","r",":","#","1","1",
            "2","2","3","3",";","f","o","n","t","-","f","a","m","i",
            "l","y",":","A","r","i","a","l",";","}">>)>>)

\* Target brands a caller authors.
ZenithBrand ==
    [name |-> <<"Z","e","n","i","t","h">>, logo |-> None,
     colors |-> [primary |-> <<"#","f","f","0","0","0","0">>, secondary |-> <<"#","4","2","9","9","E","1">>,
                 accent |-> None, background |-> <<"#","F","F","F","F","F","F">>, text |-> <<"#","1","A","2","0","2","C">>],
     typography |-> [primary |-> <<"G","e","o","r","g","i","a">>, secondary |-> None]]

AcmeCoBrand ==
    [name |-> <<"A","c","m","e","C","o">>, logo |-> None,
     colors |-> [primary |-> <<"#","1","1","2","2","3","3","a","a">>, secondary |-> <<"#","a","b","c">>,
                 accent |-> <<"#","E","D","8","9","3","6">>, background |-> <<"#","F","F","F","F","F","F">>,
                 text |-> <<"#","1","A","2","0","2","C">>],
     typography |-> [primary |-> <<"S","y","s","t","e","m","-","u","i",","," ","s","a","n",
            "s","-","s","e","r","i","f">>, secondary |-> None]]

\* A target brand whose name was left empty.
NamelessBrand == [ZenithBrand EXCEPT !.name = None]

TargetBrands == {ZenithBrand, AcmeCoBrand, NamelessBrand}

NoContent == [html |-> [elems |-> <<>>, head |-> <<>>], title |-> <<>>, url |-> ""]
NoBrand == [name |-> "<none>"]
NoRebranded == [originalUrl |-> "<none>"]

(***************************************************************************)
(* Inputs of the analysis                                                  *)
(***************************************************************************)
\* Colour literals a style text can hold: a dark and a light colour, white
\* in three spellings, a fully transparent and an opaque rgba colour.
ColorLiterals ==
    { <<"#","1","2","3">>, <<"#","e","e","e">>, <<"#","f","f","f">>, <<"#","F","F","F">>, <<"r","g","b","(","2","5","5",",","2","5","5",",","2","5",
            "5",")">>,
      <<"r","g","b","a","(","0",",","0",",","0",",","0",")">>, <<"r","g","b","a","(","9",",","9",",","9",",","1",".","0",
            ")">> }

\* n declarations of the colour c.
RECURSIVE Declarations(_, _)
Declarations(c, n) ==
    IF n = 0 THEN <<>>
    ELSE <<"c", ":">> \o c \o <<";">> \o Declarations(c, n - 1)

\* How often the first, second and third colour of a style text occur.
Frequencies == { <<5, 3, 1>>, <<1, 3, 5>>, <<2, 2, 1>>, <<1, 1, 0>>, <<1, 0, 0>> }

ColorStyle(c1, c2, c3, f) ==
    <<Elem("style", 0, None, None, None,
           Declarations(c1, f[1]) \o Declarations(c2, f[2])
             \o Declarations(c3, f[3]))>>

ColorContents ==
    {Content(<<"A","c","m","e"," ","|"," ","H","o","m","e">>, <<>>, <<>>, ColorStyle(c1, c2, c3, f)) :
        c1 \in ColorLiterals, c2 \in ColorLiterals, c3 \in ColorLiterals,
        f \in Frequencies}

\* A text of exactly MaxNameLen characters.
LongText == <<"A","c","m","e"," ","C","o","r","p","o","r","a","t","i",
            "o","n"," ","I","n","t","e","r","n","a","t","i","o","n",
            "a","l">>

\* What a brand element can hold: nothing at all (no such element), a
\* short text, a text that is too long, or blank text around an image
\* whose alt is short or too long.
BrandVariants(tag, cls, short) ==
    { <<>>,
      <<Elem(tag, 0, cls, None, None, short)>>,
      <<Elem(tag, 0, cls, None, None, <<" ">> \o short \o <<" ">>)>>,
      <<Elem(tag, 0, cls, None, None, LongText)>>,
      <<Elem(tag, 0, cls, None, None, <<" ">>),
        Elem("img", 1, None, short \o <<"!">>, None, None)>>,
      <<Elem(tag, 0, cls, None, None, LongText),
        Elem("img", 1, None, LongText, None, None)>> }

\* <header>...</header> around a fragment.
InHeader(frag) ==
    IF frag = <<>> THEN <<>>
    ELSE <<Elem("header", 0, None, None, None, None)>>
           \o [i \in 1..Len(frag) |-> [frag[i] EXCEPT !.parent = @ + 1]]

NameTitles ==
    { <<>>, <<"A","c","m","e"," ","|"," ","H","o","m","e">>, <<"S","h","o","p"," ","-"," ","A","c","m","e"," ","|"," ",
            "H","o","m","e">>, <<" "," ","A","c","m","e"," ","C","o"," "," ">> }

NameContents ==
    {Content(t, a, b, InHeader(c)) :
        t \in NameTitles,
        a \in BrandVariants("a", <<"b","r","a","n","d">>, <<"A","c","m","e">>),
        b \in BrandVariants("div", <<"l","o","g","o">>, <<"B","o","l","t">>),
        c \in BrandVariants("h1", None, <<"C","o","r","e">>)}

\* Contents that have no title property.
UntitledContents ==
    {[Content(<<>>, b, <<>>, s) EXCEPT !.title = Undefined] :
        b \in BrandFragments, s \in StyleFragments}

AnalyzerContents == ColorContents \cup NameContents \cup UntitledContents

(***************************************************************************)
(* Calls of analyzeBrand and rebrandWebsite                                *)
(***************************************************************************)
\* Number of rebrandWebsite calls followed on one content.
MaxCalls == 3

\* const brand = await analyzer.analyzeBrand(content)
AnalyzeCall ==
    /\ pContent # NoContent
    /\ pOriginal = NoBrand
    /\ pOriginal' = analyzeBrand(pContent)
    /\ UNCHANGED <<pContent, pCalls>>
    /\ UNCHANGED <<scrapeVars, wizVars, lightVars, clientVars, serverVars>>

\* const content = await rebrander.rebrandWebsite(scrapedContent,
\*                                                originalBrand, newBrand)
RebrandCall(target) ==
    /\ pOriginal # NoBrand
    /\ Len(pCalls) < MaxCalls
    /\ pCalls' = Append(pCalls,
                        [newBrand |-> target,
                         result |-> rebrandWebsite(pContent, pOriginal, target)])
    /\ UNCHANGED <<pContent, pOriginal>>
    /\ UNCHANGED <<scrapeVars, wizVars, lightVars, clientVars, serverVars>>

PipeIdle ==
    /\ pContent = NoContent
    /\ pOriginal = NoBrand
    /\ pCalls = <<>>

NextPipeline ==
    \/ AnalyzeCall
    \/ \E target \in TargetBrands \cup {pOriginal} : RebrandCall(target)

(***************************************************************************)
(* Inputs and calls of the rebranding                                      *)
(***************************************************************************)
BrandLink(name) == <<Elem("a", 0, <<"b","r","a","n","d">>, None, None, name)>>

Picture(cls, alt, src) == Elem("img", 0, cls, alt, src, None)

\* <a class="brand">A.C</a><p>Visit a.c or AxC</p>
\* <img alt="A.C team" src="/a.c/team.png">
DottedNameContent ==
    Content(<<>>, BrandLink(<<"A",".","C">>),
            <<Elem("p", 0, None, None, None, <<"V","i","s","i","t"," ","a",".","c"," ","o","r"," ","A","x","C">>),
              Picture(None, <<"A",".","C"," ","t","e","a","m">>, <<"/","a",".","c","/","t","e","a","m",".","p","n","g">>)>>, <<>>)

\* <a class="brand">(name)</a><img alt="Our logo" src="/alt.png">
\* <div class="logo"><img alt="mark" src="/mark.png"></div>
\* <img alt="photo" src="/p.png">
LogoContent(name) ==
    Content(<<>>, BrandLink(name),
            <<Picture(None, <<"O","u","r"," ","l","o","g","o">>, <<"/","a","l","t",".","p","n","g">>),
              Elem("div", 0, <<"l","o","g","o">>, None, None, None),
              [Picture(None, <<"m","a","r","k">>, <<"/","m","a","r","k",".","p","n","g">>) EXCEPT !.parent = 2],
              Picture(None, <<"p","h","o","t","o">>, <<"/","p",".","p","n","g">>)>>, <<>>)

\* <a class="brand">Acme</a><img alt="photo" src="">: no logo is found
NoLogoContent ==
    Content(<<>>, BrandLink(<<"A","c","m","e">>), <<Picture(None, <<"p","h","o","t","o">>, None)>>, <<>>)

\* One style block with three colours, #111111 three times, #222222 twice
\* and #333333 once.
ThreeColorContent ==
    Content(<<>>, BrandLink(<<"A","c","m","e">>), <<>>,
            <<Elem("style", 0, None, None, None,
                   <<"a","{","c","o","l","o","r",":","#","1","1","1","1","1",
            "1","}","b","{","c","o","l","o","r",":","#","1","1","1",
            "1","1","1","}","i","{","c","o","l","o","r",":","#","1",
            "1","1","1","1","1","}","c","{","c","o","l","o","r",":",
            "#","2","2","2","2","2","2","}","d","{","c","o","l","o",
            "r",":","#","2","2","2","2","2","2","}","e","{","c","o",
            "l","o","r",":","#","3","3","3","3","3","3","}">>)>>)

\* Two style blocks.
TwoBlockContent ==
    Content(<<>>, BrandLink(<<"A","c","m","e">>), <<>>,
            <<Elem("style", 0, None, None, None, <<"a","{","c","o","l","o","r",":","#","1","1","1","1","1","1","}">>),
              Elem("style", 0, None, None, None, <<"b","{","c","o","l","o","r",":","#","2","2","2","2","2","2","}">>)>>)

RebrandContents ==
    { DottedNameContent, LogoContent(<<"A","c","m","e">>), LogoContent(<<"G","o">>),
      NoLogoContent, ThreeColorContent, TwoBlockContent }

\* A target brand whose name holds a dollar sign.
DollarBrand == [ZenithBrand EXCEPT !.name = <<"P","a","y","$","$">>]

\* A target brand that swaps the primary and secondary colours of the
\* original brand.
SwappedBrand(original) ==
    [ZenithBrand EXCEPT !.colors.primary = original.colors.secondary,
                        !.colors.secondary = original.colors.primary,
                        !.colors.accent = original.colors.accent]

RebrandTargets(original) ==
    {ZenithBrand, DollarBrand, SwappedBrand(original)}

\* rebrandWebsite called on the html of its own result, with the same
\* target.
RebrandOutputCall ==
    /\ pCalls # <<>>
    /\ Len(pCalls) < MaxCalls
    /\ LET last == pCalls[Len(pCalls)]
           output == [pContent EXCEPT !.html = last.result.html]
       IN  /\ pContent' = output
           /\ pCalls' = Append(pCalls,
                  [newBrand |-> last.newBrand,
                   result |-> rebrandWebsite(output, pOriginal, last.newBrand)])
    /\ UNCHANGED pOriginal
    /\ UNCHANGED <<scrapeVars, wizVars, lightVars, clientVars, serverVars>>

NextRebrand ==
    \/ AnalyzeCall
    \/ /\ pOriginal # NoBrand
       /\ \E target \in RebrandTargets(pOriginal) : RebrandCall(target)
    \/ RebrandOutputCall

(***************************************************************************)
(* WebsiteRebranderPage                                                    *)
(***************************************************************************)
InitialNewBrand ==
    [name |-> None, logo |-> None,
     colors |-> [primary |-> <<"#","3","1","8","2","C","E">>, secondary |-> <<"#","4","2","9","9","E","1">>,
                 accent |-> <<"#","E","D","8","9","3","6">>, background |-> <<"#","F","F","F","F","F","F">>,
                 text |-> <<"#","1","A","2","0","2","C">>],
     typography |-> [primary |-> <<"I","n","t","e","r",","," ","s","a","n","s","-","s","e",
            "r","i","f">>, secondary |-> None]]

\* What the user can type into the url field.
UrlInputs == {None, <<"e","x","a","m","p","l","e",".","c","o","m">>, <<"h","t","t","p","s",":","/","/","e","x","a","m","p","l",
            "e",".","c","o","m">>}

\* What the user can put into the fields of the brand form: the name and
\* colour text inputs take any text, the font is one of the options of the
\* select element.
NameInputs == {None, <<"Z","e","n","i","t","h">>}
ColorInputs == {None, <<"#","f","f","0","0","0","0">>}
FontInputs == {<<"I","n","t","e","r",","," ","s","a","n","s","-","s","e",
            "r","i","f">>, <<"S","y","s","t","e","m","-","u","i",","," ","s","a","n",
            "s","-","s","e","r","i","f">>}

\* Pages the scrape API can deliver to the wizard.
WizardContents ==
    {ExampleContent,
     Content(<<"A","c","m","e"," ","|"," ","H","o","m","e">>, <<>>, <<Elem("p", 0, None, None, None, <<"W","e","l","c","o","m","e"," ","t","o"," ","A","C","M",
            "E">>)>>,
             <<>>)}

\* if (!url || !url.startsWith('http'))
UrlValid(u) == u # <<>> /\ StartsWith(u, <<"h","t","t","p">>)

\* if (!newBrand.name || !newBrand.colors.primary || !newBrand.typography.primary)
NewBrandValid(nb) ==
    nb.name # <<>> /\ nb.colors.primary # <<>> /\ nb.typography.primary # <<>>

ErrInvalidUrl ==
    "Error scraping website: Please enter a valid URL starting with http:// or https://"
ErrScrapeFailed == "Error scraping website: Failed to scrape website"
ErrNoContent ==
    "Error rebranding website: Website content not available. Please scrape a website first."
ErrBrandInfo ==
    "Error rebranding website: Please fill in all required brand information."

\* router.push has not been called: the page is still the one shown.
NoPush == "<none>"
Mounted == pushed = NoPush

\* onChange of the url field (rendered at step 1)
SetUrl(u) ==
    /\ Mounted
    /\ step = 1
    /\ url' = u
    /\ UNCHANGED <<isLoading, step, scrapedContent, originalBrand, savedWebsiteId,
                   useProxy, newBrand, rebrandedContent, error>>
    /\ UNCHANGED <<createdWebsites, pushed>>
    /\ UNCHANGED <<scrapeVars, pipeVars, lightVars, clientVars, serverVars>>

\* onChange of the useProxy checkbox (rendered at step 1)
SetUseProxy(b) ==
    /\ Mounted
    /\ step = 1
    /\ useProxy' = b
    /\ UNCHANGED <<url, isLoading, step, scrapedContent, originalBrand,
                   savedWebsiteId, newBrand, rebrandedContent, error>>
    /\ UNCHANGED <<createdWebsites, pushed>>
    /\ UNCHANGED <<scrapeVars, pipeVars, lightVars, clientVars, serverVars>>

\* handleScrapeWebsite; scraped is what scraper.scrapeWebsite returns,
\* NoContent when it throws.
handleScrapeWebsite(scraped) ==
    /\ Mounted
    /\ step = 1
    /\ ~isLoading
    /\ isLoading' = FALSE
    /\ IF ~UrlValid(url)
       THEN /\ error' = ErrInvalidUrl
            /\ UNCHANGED <<scrapedContent, originalBrand, step>>
       ELSE IF scraped = NoContent
       THEN /\ error' = ErrScrapeFailed
            /\ UNCHANGED <<scrapedContent, originalBrand, step>>
       ELSE /\ error' = ""
            /\ scrapedContent' = scraped
            /\ originalBrand' = analyzeBrand(scraped)
            /\ step' = 2
    /\ UNCHANGED <<url, savedWebsiteId, useProxy, newBrand, rebrandedContent>>
    /\ UNCHANGED <<createdWebsites, pushed>>
    /\ UNCHANGED <<scrapeVars, pipeVars, lightVars, clientVars, serverVars>>

\* handleBrandChange and the onChange of the font select (rendered at
\* step 2): one field of newBrand is set.
handleBrandChange(field, value) ==
    /\ Mounted
    /\ step = 2
    /\ originalBrand # NoBrand
    /\ newBrand' =
          CASE field = "name" -> [newBrand EXCEPT !.name = value]
            [] field = "colors.primary" -> [newBrand EXCEPT !.colors.primary = value]
            [] field = "typography.primary" ->
                  [newBrand EXCEPT !.typography.primary = value]
    /\ UNCHANGED <<url, isLoading, step, scrapedContent, originalBrand,
                   savedWebsiteId, useProxy, rebrandedContent, error>>
    /\ UNCHANGED <<createdWebsites, pushed>>
    /\ UNCHANGED <<scrapeVars, pipeVars, lightVars, clientVars, serverVars>>

\* handleRebrandWebsite with setStep(3) moved out of the try block
handleRebrandWebsiteAlt ==
    /\ Mounted
    /\ step = 2
    /\ originalBrand # NoBrand
    /\ ~isLoading
    /\ isLoading' = FALSE
    /\ IF scrapedContent = NoContent \/ originalBrand = NoBrand
       THEN /\ error' = ErrNoContent
            /\ UNCHANGED <<rebrandedContent, step>>
       ELSE IF ~NewBrandValid(newBrand)
       THEN /\ error' = ErrBrandInfo
            /\ step' = 3
            /\ UNCHANGED rebrandedContent
       ELSE /\ error' = ""
            /\ rebrandedContent' =
                  rebrandWebsite(scrapedContent, originalBrand, newBrand)
            /\ step' = 3
    /\ UNCHANGED <<url, scrapedContent, originalBrand, savedWebsiteId, useProxy,
                   newBrand>>
    /\ UNCHANGED <<createdWebsites, pushed>>
    /\ UNCHANGED <<scrapeVars, pipeVars, lightVars, clientVars, serverVars>>

\* handleRebrandWebsite
handleRebrandWebsite ==
    /\ Mounted
    /\ step = 2
    /\ originalBrand # NoBrand
    /\ ~isLoading
    /\ isLoading' = FALSE
    /\ IF scrapedContent = NoContent \/ originalBrand = NoBrand
       THEN /\ error' = ErrNoContent
            /\ UNCHANGED <<rebrandedContent, step>>
       ELSE IF ~NewBrandValid(newBrand)
       THEN /\ error' = ErrBrandInfo
            /\ UNCHANGED <<rebrandedContent, step>>
       ELSE /\ error' = ""
            /\ rebrandedContent' =
                  rebrandWebsite(scrapedContent, originalBrand, newBrand)
            /\ step' = 3
    /\ UNCHANGED <<url, scrapedContent, originalBrand, savedWebsiteId, useProxy,
                   newBrand>>
    /\ UNCHANGED <<createdWebsites, pushed>>
    /\ UNCHANGED <<scrapeVars, pipeVars, lightVars, clientVars, serverVars>>

\* The Start Over button (rendered at step 3): setStep(1)
StartOver ==
    /\ Mounted
    /\ step = 3
    /\ step' = 1
    /\ UNCHANGED <<url, isLoading, scrapedContent, originalBrand, savedWebsiteId,
                   useProxy, newBrand, rebrandedContent, error>>
    /\ UNCHANGED <<createdWebsites, pushed>>
    /\ UNCHANGED <<scrapeVars, pipeVars, lightVars, clientVars, serverVars>>

\* What the two requests of handleSaveWebsite can come to: the POST to
\* /api/rebrand-website is answered with the new website or with a status
\* that is not ok; the POST to /api/analytics resolves or rejects.
SaveOutcomes == {"created", "rejected"}
AnalyticsOutcomes == {"resolved", "threw"}

\* data.website._id of the n-th website the server creates
WebsiteId(n) == "website-" \o ToString(n)

\* The body handleSaveWebsite sends, kept with the _id the server gave it.
SaveBody(id) ==
    [_id |-> id, name |-> newBrand.name, url |-> url,
     originalBrand |-> originalBrand, newBrand |-> newBrand,
     rebrandedContent |-> rebrandedContent]

ErrDeploy ==
    "Error preparing for deployment: Failed to save website before deployment"

\* let websiteId = savedWebsiteId; if (!websiteId) { ...handleSaveWebsite }
ReusesSavedId == savedWebsiteId # "<null>"

\* The Deploy Website button (rendered at step 3, disabled while loading):
\* handleDeployWebsite, with handleSaveWebsite when no website id is held.
\* handleSaveWebsite returns null when either of its requests fails, after
\* setSavedWebsiteId when it is the second that does.
handleDeployWebsite(saved, logged) ==
    /\ Mounted
    /\ step = 3
    /\ rebrandedContent # NoRebranded
    /\ ~isLoading
    /\ isLoading' = FALSE
    /\ IF ReusesSavedId
       THEN /\ pushed' = savedWebsiteId
            /\ UNCHANGED <<savedWebsiteId, createdWebsites, error>>
       ELSE IF saved = "rejected"
       THEN /\ error' = ErrDeploy
            /\ UNCHANGED <<savedWebsiteId, createdWebsites, pushed>>
       ELSE LET id == WebsiteId(Len(createdWebsites) + 1)
            IN  /\ createdWebsites' = Append(createdWebsites, SaveBody(id))
                /\ savedWebsiteId' = id
                /\ IF logged = "threw"
                   THEN /\ error' = ErrDeploy
                        /\ UNCHANGED pushed
                   ELSE /\ error' = ""
                        /\ pushed' = id
    /\ UNCHANGED <<url, step, scrapedContent, originalBrand, useProxy, newBrand,
                   rebrandedContent>>
    /\ UNCHANGED <<scrapeVars, pipeVars, lightVars, clientVars, serverVars>>

\* The useState initial values.
WizardInitial ==
    /\ url = None
    /\ isLoading = FALSE
    /\ step = 1
    /\ scrapedContent = NoContent
    /\ originalBrand = NoBrand
    /\ savedWebsiteId = "<null>"
    /\ useProxy = FALSE
    /\ newBrand = InitialNewBrand
    /\ rebrandedContent = NoRebranded
    /\ error = ""
    /\ createdWebsites = <<>>
    /\ pushed = NoPush

NextWizard ==
    \/ \E u \in UrlInputs : SetUrl(u)
    \/ \E b \in BOOLEAN : SetUseProxy(b)
    \/ \E c \in WizardContents \cup {NoContent} : handleScrapeWebsite(c)
    \/ \E v \in NameInputs : handleBrandChange("name", v)
    \/ \E v \in ColorInputs : handleBrandChange("colors.primary", v)
    \/ \E v \in FontInputs : handleBrandChange("typography.primary", v)
    \/ handleRebrandWebsite
    \/ StartOver
    \/ \E saved \in SaveOutcomes, logged \in AnalyticsOutcomes :
          handleDeployWebsite(saved, logged)

(***************************************************************************)
(* Calls of isLightColor                                                   *)
(***************************************************************************)
NoColor == <<>>

\* Hex digits and digit pairs the colours of the calls are made of.
LightDigits == {"0", "7", "8", "9", "a", "A", "f", "F"}

LightPairs ==
    { <<"0", "0">>, <<"7", "f">>, <<"8", "0">>, <<"8", "1">>, <<"A", "b">>,
      <<"f", "f">>, <<"F", "F">> }

\* The color arguments: #rgb and #rrggbb literals and literals in the
\* functional notations.
LightArguments ==
    {<<"#", r, g, b>> : r \in LightDigits, g \in LightDigits, b \in LightDigits}
      \cup {<<"#">> \o r \o g \o b :
                r \in LightPairs, g \in LightPairs, b \in LightPairs}
      \cup { <<"r","g","b","(","2","5","5",",","2","5","5",",","2","5",
            "5",")">>, <<"r","g","b","a","(","2","5","5",",","2","5","5",",","2",
            "5","5",",","1",")">>, <<"h","s","l","(","0",",","0","%",",","1","0","0","%",")">>,
             <<"h","s","l","a","(","0",",","0","%",",","1","0","0","%",
            ",","1",")">>, <<"r","g","b","(","0",",","0",",","0",")">> }

\* this.isLightColor(color)
IsLightColorCall(c) ==
    /\ lColor = NoColor
    /\ lColor' = c
    /\ lLight' = isLightColor(c)
    /\ UNCHANGED <<scrapeVars, pipeVars, wizVars, clientVars, serverVars>>

LightIdle ==
    /\ lColor = NoColor
    /\ lLight = FALSE

NextLight == \E c \in LightArguments : IsLightColorCall(c)

(***************************************************************************)
(* The client WebsiteScraper.scrapeWebsite                                 *)
(***************************************************************************)
NoResult == [kind |-> "none"]

ClientUrls ==
    { <<"h","t","t","p","s",":","/","/","e","x","a","m","p","l",
            "e",".","c","o","m">>, <<"h","t","t","p","s",":","/","/","a","c","m","e",".","t",
            "e","s","t","/","a"," ","b">>, <<"h","t","t","p",":","/","/","s","h","o","p",".","e","x",
            "a","m","p","l","e",".","o","r","g">> }

\* ScrapedContents the API can answer with.
ClientData ==
    { ExampleContent, Content(<<>>, <<>>, <<>>, <<>>),
      Content(<<"A","c","m","e"," ","|"," ","H","o","m","e">>, <<>>, <<>>, <<>>) }

\* Outcomes of axios.get(apiUrl, { timeout: 30000 }): resolved with the
\* content, rejected with an axios error that carries a response status,
\* rejected with an axios error without response (timeout, network), or
\* rejected with another error.
ClientOutcomes ==
    [kind : {"ok"}, status : {200}, data : ClientData]
      \cup [kind : {"status"}, status : {400, 403, 404, 500, 502, 504},
            data : {NoContent}]
      \cup [kind : {"timeout", "network", "other"}, status : {0},
            data : {NoContent}]

\* The decimal digits of a status code.
RECURSIVE Decimal(_)
Decimal(n) ==
    LET digit == <<"0", "1", "2", "3", "4", "5", "6", "7", "8", "9">>[(n % 10) + 1]
    IN  IF n < 10 THEN <<digit>> ELSE Append(Decimal(n \div 10), digit)

\* error instanceof Error ? error.message : String(error)
ErrorMessage(o) ==
    CASE o.kind = "status" -> <<"R","e","q","u","e","s","t"," ","f","a","i","l","e","d",
            " ","w","i","t","h"," ","s","t","a","t","u","s"," ","c",
            "o","d","e"," ">> \o Decimal(o.status)
      [] o.kind = "timeout" -> <<"t","i","m","e","o","u","t"," ","o","f"," ","3","0","0",
            "0","0","m","s"," ","e","x","c","e","e","d","e","d">>
      [] o.kind = "network" -> <<"N","e","t","w","o","r","k"," ","E","r","r","o","r">>
      [] OTHER -> <<"e","r","r","o","r">>

\* `/api/scrape-website?url=${encodeURIComponent(url)}${useProxy ? '&useProxy=true' : ''}`
ApiUrl(u, p) ==
    <<"/","a","p","i","/","s","c","r","a","p","e","-","w","e",
            "b","s","i","t","e","?","u","r","l","=">> \o encodeURIComponent(u)
        \o (IF p THEN <<"&","u","s","e","P","r","o","x","y","=","t","r","u","e">> ELSE <<>>)

FallbackTitle(u) == <<"F","a","l","l","b","a","c","k"," ","f","o","r"," ">> \o u

FallbackDescription(u) == <<"F","a","l","l","b","a","c","k"," ","c","o","n","t","e",
            "n","t"," ","f","o","r"," ">> \o u

\* The elements of the fallback page (id attributes are not kept).
FallbackElems(u) ==
    << Elem("title", 0, None, None, None, FallbackTitle(u)),
       Meta(<<"d","e","s","c","r","i","p","t","i","o","n">>, FallbackDescription(u)),
       Elem("style", 0, None, None, None, FallbackStyle),
       Elem("div", 0, <<"c","o","n","t","a","i","n","e","r">>, None, None, None),
       Elem("div", 4, <<"a","l","e","r","t">>, None, None, None),
       Elem("p", 5, None, None, None,
            <<"W","e"," ","w","e","r","e"," ","u","n","a","b","l","e",
            " ","t","o"," ","s","c","r","a","p","e"," ","t","h","e",
            " ","w","e","b","s","i","t","e"," ","d","u","e"," ","t",
            "o"," ","s","e","c","u","r","i","t","y"," ","r","e","s",
            "t","r","i","c","t","i","o","n","s",".">>),
       Elem("p", 5, None, None, None,
            <<"P","l","e","a","s","e"," ","t","r","y"," ","u","s","i",
            "n","g"," ","a"," ","d","i","f","f","e","r","e","n","t",
            " ","U","R","L"," ","o","r"," ","c","o","n","t","a","c",
            "t"," ","s","u","p","p","o","r","t"," ","i","f"," ","t",
            "h","i","s"," ","i","s","s","u","e"," ","p","e","r","s",
            "i","s","t","s",".">>),
       Elem("h1", 4, None, None, None, <<"F","a","l","l","b","a","c","k"," ","C","o","n","t","e",
            "n","t"," ","f","o","r",":">>),
       Elem("p", 4, <<"u","r","l">>, None, None, u),
       Elem("div", 4, None, None, None, <<"H","e","a","d","e","r"," ","P","l","a","c","e","h","o",
            "l","d","e","r">>),
       Elem("div", 4, None, None, None, <<"C","o","n","t","e","n","t"," ","P","l","a","c","e","h",
            "o","l","d","e","r">>),
       Elem("div", 4, None, None, None, <<"F","o","o","t","e","r"," ","P","l","a","c","e","h","o",
            "l","d","e","r">>) >>

\* private createFallbackContent(url)
createFallbackContent(u) ==
    [html |-> [elems |-> FallbackElems(u), head |-> <<>>],
     css |-> <<>>,
     images |-> <<>>,
     title |-> FallbackTitle(u),
     description |-> FallbackDescription(u),
     url |-> u,
     structure |-> [header |-> TRUE, footer |-> TRUE, navigation |-> FALSE,
                    sections |-> 1]]

\* if (axios.isAxiosError(error) && error.response?.status === 500 && !useProxy)
RetriesWithProxyAlt(o, p) == o.kind = "status" /\ ~p
RetriesWithProxy(o, p) == o.kind = "status" /\ o.status = 500 /\ ~p

\* scrapeWebsite(url, useProxy = false) up to its await.
ScrapeWebsiteCall(u, p) ==
    /\ cPc = "idle"
    /\ cPc' = "request"
    /\ cUrl' = u
    /\ cArgProxy' = p
    /\ cUseProxy' = p
    /\ cRequests' = <<>>
    /\ cResult' = NoResult
    /\ UNCHANGED <<scrapeVars, pipeVars, wizVars, lightVars, serverVars>>

\* await axios.get(apiUrl, ...) of the running invocation and what follows
\* it: return response.data, or the catch block, whose recursive call runs
\* up to its own await.
ClientRequest(o) ==
    /\ cPc = "request"
    /\ cRequests' = Append(cRequests, [apiUrl |-> ApiUrl(cUrl, cUseProxy),
                                       useProxy |-> cUseProxy, outcome |-> o])
    /\ IF o.kind = "ok"
       THEN /\ cResult' = [kind |-> "content", content |-> o.data]
            /\ cPc' = "done"
            /\ UNCHANGED cUseProxy
       ELSE IF RetriesWithProxy(o, cUseProxy)
       THEN /\ cUseProxy' = TRUE
            /\ UNCHANGED <<cPc, cResult>>
       ELSE IF cUseProxy
       THEN /\ cResult' = [kind |-> "content", content |-> createFallbackContent(cUrl)]
            /\ cPc' = "done"
            /\ UNCHANGED cUseProxy
       ELSE /\ cResult' = [kind |-> "throw",
                           message |-> <<"F","a","i","l","e","d"," ","t","o"," ","s","c","r","a","p","e"," ","w","e","b","s","i","t","e",":"," ">> \o ErrorMessage(o)]
            /\ cPc' = "done"
            /\ UNCHANGED cUseProxy
    /\ UNCHANGED <<cUrl, cArgProxy>>
    /\ UNCHANGED <<scrapeVars, pipeVars, wizVars, lightVars, serverVars>>

ClientIdle ==
    /\ cPc = "idle"
    /\ cUrl = <<>>
    /\ cArgProxy = FALSE
    /\ cUseProxy = FALSE
    /\ cRequests = <<>>
    /\ cResult = NoResult

NextClient ==
    \/ \E u \in ClientUrls, p \in BOOLEAN : ScrapeWebsiteCall(u, p)
    \/ \E o \in ClientOutcomes : ClientRequest(o)

(***************************************************************************)
(* POST of the rebrand endpoint                                            *)
(***************************************************************************)
\* What auth() resolves to: no session, a session whose user has no id, or
\* the session of a user.
NoSession == [kind |-> "none", id |-> ""]
Sessions ==
    {NoSession} \cup [kind : {"user"}, id : {"", "ann", "bob", "eve"}]

\* isAuthenticated(request) returns no error
IsAuthenticated(session) == session.kind = "user"

\* getCurrentUserId(): session?.user?.id || null
getCurrentUserId(session) ==
    IF session.kind = "user" /\ session.id # "" THEN session.id ELSE "<null>"

\* rebrandSchema.safeParse(body).success, for the fields the model keeps
Validates(body) ==
    /\ body.websiteId # <<>>
    /\ body.newBrandElements.name # <<>>
    /\ body.newBrandElements.colors.primary # <<>>
    /\ body.newBrandElements.colors.secondary # <<>>
    /\ body.newBrandElements.colors.background # <<>>
    /\ body.newBrandElements.colors.text # <<>>
    /\ body.newBrandElements.typography.primary # <<>>

\* website.creator.toString() === userId
\*   || website.collaborators.some(id => id.toString() === userId)
HasAccessAlt(site, userId) == TRUE
HasAccess(site, userId) == site.creator = userId \/ userId \in site.collaborators

\* new RegExp(name, 'g') matches at position i of s: the name is not
\* escaped, so a dot in it matches any character; case is kept. (No other
\* character with a meaning in a pattern occurs in the names of the model.)
RegExpMatchAt(s, i, pat) ==
    /\ i >= 1
    /\ i + Len(pat) - 1 <= Len(s)
    /\ \A k \in 1..Len(pat) : pat[k] = "." \/ s[i + k - 1] = pat[k]

\* s.replace(new RegExp(pat, 'g'), rep) from position i on, pat not empty
RECURSIVE RegExpReplaceFrom(_, _, _, _)
RegExpReplaceFrom(s, i, pat, rep) ==
    LET j == FirstOf({k \in i..(Len(s) - Len(pat) + 1) : RegExpMatchAt(s, k, pat)})
    IN  IF j = 0 THEN SubSeq(s, i, Len(s))
        ELSE SubSeq(s, i, j - 1)
               \o ExpandReplacement(rep, s, j, Len(pat))
               \o RegExpReplaceFrom(s, j + Len(pat), pat, rep)

\* Elements the parser puts into head when they come before anything else.
HeadTags == {"title", "meta", "link", "style"}

\* $('body').find('*') holds element i of the document: the body starts
\* with the first element that cannot stand in head.
InBody(doc, i) == \E j \in 1..i : doc[j].tag \notin HeadTags

\* $('body').find('*').contents().each(... element.data.replace(...))
ReplaceTextNodes(doc, oldBrandName, newBrandName) ==
    [i \in 1..Len(doc) |->
        IF InBody(doc, i) /\ doc[i].text # <<>>
        THEN [doc[i] EXCEPT !.text = RegExpReplaceFrom(@, 1, oldBrandName, newBrandName)]
        ELSE doc[i]]

\* img[src*="logo"], img[alt*="logo"], img[alt*="Logo"]
IsLogoImage(e) ==
    /\ e.tag = "img"
    /\ \/ Includes(e.src, <<"l","o","g","o">>)
       \/ Includes(e.alt, <<"l","o","g","o">>)
       \/ Includes(e.alt, <<"L","o","g","o">>)

\* if (newBrandElements.logo && website.brandElements.logo) $(...).attr('src', ...)
ReplaceLogos(doc, oldElements, newElements) ==
    IF newElements.logo # <<>> /\ oldElements.logo # <<>>
    THEN [i \in 1..Len(doc) |->
            IF IsLogoImage(doc[i]) THEN [doc[i] EXCEPT !.src = newElements.logo]
            ELSE doc[i]]
    ELSE doc

\* What openAIService.generateText resolved to.
AiGeneratedCss == [kind |-> "ai"]

\* colorReplacementCss, by the values its template is filled with
ColorReplacementCss(oldElements, newElements) ==
    [kind |-> "colorReplacement",
     oldColors |-> [c \in {"primary", "secondary", "text", "background"} |->
                        oldElements.colors[c]],
     newColors |-> [c \in {"primary", "secondary", "text", "background"} |->
                        newElements.colors[c]],
     typography |-> newElements.typography]

\* The rebrandedContent the handler stores.
RebrandedBy(site, newBrandElements, useAI) ==
    LET named == ReplaceTextNodes(site.originalContent.html,
                                  site.brandElements.name, newBrandElements.name)
    IN  [html |-> ReplaceLogos(named, site.brandElements, newBrandElements),
         css |-> site.originalContent.css
                   \o (IF useAI THEN <<AiGeneratedCss>> ELSE <<>>)
                   \o <<ColorReplacementCss(site.brandElements, newBrandElements)>>,
         images |-> site.originalContent.images]

\* new Activity({ user, action: 'rebrand', ... })
RebrandActivity(userId, websiteId, oldBrandName, newBrandName) ==
    [user |-> userId, action |-> "rebrand", resourceType |-> "website",
     resource |-> websiteId,
     metadata |-> [oldBrandName |-> oldBrandName, newBrandName |-> newBrandName]]

\* The status of the response, by the first check of the handler that
\* fails; thrown names the await that rejected, "none" when none did.
StatusOf(site, session, body, thrown) ==
    IF ~IsAuthenticated(session) THEN 401
    ELSE IF getCurrentUserId(session) = "<null>" THEN 401
    ELSE IF ~Validates(body) THEN 400
    ELSE IF body.websiteId # site._id THEN 404
    ELSE IF ~HasAccess(site, getCurrentUserId(session)) THEN 403
    ELSE IF thrown = "generateText" /\ body.useAI THEN 500
    ELSE IF thrown = "activity.save" THEN 500
    ELSE 200

\* How a request runs once its checks have passed: with or without the
\* call of OpenAI, and with the await that rejects, "none" when none does.
Runs ==
    { [useAI |-> FALSE, thrown |-> "none"],
      [useAI |-> TRUE, thrown |-> "none"],
      [useAI |-> TRUE, thrown |-> "generateText"],
      [useAI |-> FALSE, thrown |-> "activity.save"] }

\* The most rebrand activities the log is let grow to.
MaxRebrands == 2

\* export async function POST(request): the whole handler. The website is
\* saved before the activity is, so a rejected activity.save() leaves the
\* website changed and the log as it was.
POST(session, body, thrown) ==
    /\ Len(activities) < MaxRebrands
    /\ LET status == StatusOf(website, session, body, thrown)
           userId == getCurrentUserId(session)
           saved == status = 200 \/ (status = 500 /\ thrown = "activity.save")
       IN  /\ website' =
                 IF saved
                 THEN [website EXCEPT
                         !.rebrandedContent =
                             RebrandedBy(website, body.newBrandElements, body.useAI),
                         !.brandElements = body.newBrandElements]
                 ELSE website
           /\ activities' =
                 IF status = 200
                 THEN Append(activities,
                             RebrandActivity(userId, body.websiteId,
                                             website.brandElements.name,
                                             body.newBrandElements.name))
                 ELSE activities
           /\ postRequest' = [session |-> session, body |-> body]
           /\ postResponse' = [status |-> status]
    /\ UNCHANGED <<scrapeVars, pipeVars, wizVars, lightVars, clientVars>>

(***************************************************************************)
(* Inputs of the rebrand endpoint                                          *)
(***************************************************************************)
SiteId == <<"w","1">>
UnknownId == <<"w","9">>

\* The brand a website was created with.
SiteBrand(name, logo) == [AcmeCoBrand EXCEPT !.name = name, !.logo = logo]

Site(html, brand, collaborators) ==
    [_id |-> SiteId, creator |-> "ann", collaborators |-> collaborators,
     originalContent |-> [html |-> html, css |-> <<>>, images |-> <<>>],
     brandElements |-> brand, rebrandedContent |-> NoRebranded]

\* <title>Acme | Home</title><a class="brand">Acme</a>
\* <p>Welcome to Acme, ACME</p><img alt="Acme logo" src="/logo.png">
AcmeSiteHtml ==
    << Elem("title", 0, None, None, None, <<"A","c","m","e"," ","|"," ","H","o","m","e">>),
       Elem("a", 0, <<"b","r","a","n","d">>, None, None, <<"A","c","m","e">>),
       Elem("p", 0, None, None, None, <<"W","e","l","c","o","m","e"," ","t","o"," ","A","c","m","e",","," ","A","C","M","E">>),
       Picture(None, <<"A","c","m","e"," ","l","o","g","o">>, <<"/","l","o","g","o",".","p","n","g">>) >>

Sites ==
    { Site(AcmeSiteHtml, SiteBrand(<<"A","c","m","e">>, <<"/","l","o","g","o",".","p","n","g">>), {"bob"}),
      Site(DottedNameContent.html.elems, SiteBrand(<<"A",".","C">>, None), {}) }

NovaBrand == [ZenithBrand EXCEPT !.name = <<"N","o","v","a">>, !.logo = <<"/","n","o","v","a",".","p","n","g">>]

\* The target brands of the requests: two that pass the schema, one
\* without a name.
PostTargets == {ZenithBrand, NovaBrand, NamelessBrand}

\* The JSON body of a request.
Body(id, target, useAI) ==
    [websiteId |-> id, newBrandElements |-> target, useAI |-> useAI]

NoSite == [_id |-> <<>>]
NoPost == [session |-> NoSession]
NoStatus == [status |-> 0]

ServerIdle ==
    /\ website = NoSite
    /\ activities = <<>>
    /\ postRequest = NoPost
    /\ postResponse = NoStatus

NextServer ==
    \E session \in Sessions, id \in {SiteId, UnknownId},
       target \in PostTargets, run \in Runs :
        POST(session, Body(id, target, run.useAI), run.thrown)

(***************************************************************************)
(* Specifications                                                          *)
(***************************************************************************)
\* One process serving scrape-website GET requests.
InitScrape == ScrapeIdle /\ PipeIdle /\ WizardInitial /\ LightIdle /\ ClientIdle /\ ServerIdle

SpecScrape == InitScrape /\ [][NextScrape]_vars

\* analyzeBrand and rebrandWebsite called on any of the contents.
InitPipeline ==
    /\ ScrapeIdle
    /\ WizardInitial
    /\ LightIdle
    /\ ClientIdle
    /\ ServerIdle
    /\ pContent \in Contents
    /\ pOriginal = NoBrand
    /\ pCalls = <<>>

SpecPipeline == InitPipeline /\ [][NextPipeline]_vars

\* analyzeBrand called on any of the analyzer contents.
InitAnalyze ==
    /\ ScrapeIdle
    /\ WizardInitial
    /\ LightIdle
    /\ ClientIdle
    /\ ServerIdle
    /\ pContent \in AnalyzerContents
    /\ pOriginal = NoBrand
    /\ pCalls = <<>>

NextAnalyze == AnalyzeCall

SpecAnalyze == InitAnalyze /\ [][NextAnalyze]_vars

\* isLightColor called on any of the colour arguments.
InitLight == ScrapeIdle /\ PipeIdle /\ WizardInitial /\ LightIdle /\ ClientIdle /\ ServerIdle

SpecLight == InitLight /\ [][NextLight]_vars

\* One call of the client scrapeWebsite.
InitClient == ScrapeIdle /\ PipeIdle /\ WizardInitial /\ LightIdle /\ ClientIdle /\ ServerIdle

SpecClient == InitClient /\ [][NextClient]_vars

\* The same call where every request settles: axios.get is given a
\* timeout of 30 seconds, so its promise resolves or rejects.
SpecClientSettling ==
    InitClient /\ [][NextClient]_vars
        /\ WF_vars(\E o \in ClientOutcomes : ClientRequest(o))

\* Requests whose direct fetch delivers a page for the parser.
InitParse == InitScrape

SpecParse == InitParse /\ [][NextParse]_vars

\* analyzeBrand and rebrandWebsite called on the rebranding contents.
InitRebrand ==
    /\ ScrapeIdle
    /\ WizardInitial
    /\ LightIdle
    /\ ClientIdle
    /\ ServerIdle
    /\ pContent \in RebrandContents
    /\ pOriginal = NoBrand
    /\ pCalls = <<>>

SpecRebrand == InitRebrand /\ [][NextRebrand]_vars

\* Requests to the rebrand endpoint about one stored website.
InitServer ==
    /\ ScrapeIdle
    /\ PipeIdle
    /\ WizardInitial
    /\ LightIdle
    /\ ClientIdle
    /\ website \in Sites
    /\ activities = <<>>
    /\ postRequest = NoPost
    /\ postResponse = NoStatus

SpecServer == InitServer /\ [][NextServer]_vars

\* One user at the wizard page.
InitWizard == ScrapeIdle /\ PipeIdle /\ WizardInitial /\ LightIdle /\ ClientIdle /\ ServerIdle

SpecWizard == InitWizard /\ [][NextWizard]_vars


(***************************************************************************)
(* Claims about extraction and rebranding                                  *)
(***************************************************************************)
CallIdx == 1..Len(pCalls)

\* The inline style text of the input, joined as rebrandWebsite joins it.
InputCss == Join(InlineStyles(pContent.html.elems), <<"\n">>)

\* Occurrences of name, ignoring case, in the text nodes and attribute
\* values of the elements of doc from element i on.
RECURSIVE NameOccurrencesFrom(_, _, _)
NameOccurrencesFrom(doc, i, name) ==
    IF i > Len(doc) THEN 0
    ELSE CountCI(doc[i].text, name) + CountCI(doc[i].cls, name)
           + CountCI(doc[i].alt, name) + CountCI(doc[i].src, name)
           + NameOccurrencesFrom(doc, i + 1, name)

\* Occurrences of a value of the original brand in the input style text,
\* counted for a slot when the code replaces that slot.
SlotOccurrences(from, to, always) ==
    IF always \/ (from # <<>> /\ to # <<>>) THEN CountCI(InputCss, from) ELSE 0

\* C5: the brand analyzeBrand returns has a non-empty name and non-empty
\* colors.primary, colors.secondary, colors.background, colors.text and
\* typography.primary, whatever the content.
C5_ExtractPopulatesRequiredFields ==
    pOriginal # NoBrand =>
        /\ pOriginal.name # <<>>
        /\ pOriginal.colors.primary # <<>>
        /\ pOriginal.colors.secondary # <<>>
        /\ pOriginal.colors.background # <<>>
        /\ pOriginal.colors.text # <<>>
        /\ pOriginal.typography.primary # <<>>

C7_CountersCountOriginalOccurrences ==
    \A k \in CallIdx :
        LET target == pCalls[k].newBrand
            changes == pCalls[k].result.changes
        IN  /\ changes.colorReplacements =
                  SlotOccurrences(pOriginal.colors.primary,
                                  target.colors.primary, TRUE)
                    + SlotOccurrences(pOriginal.colors.secondary,
                                      target.colors.secondary, FALSE)
                    + SlotOccurrences(pOriginal.colors.accent,
                                      target.colors.accent, FALSE)
            /\ changes.fontReplacements =
                  SlotOccurrences(pOriginal.typography.primary,
                                  target.typography.primary, TRUE)
                    + SlotOccurrences(pOriginal.typography.secondary,
                                      target.typography.secondary, FALSE)
            /\ changes.nameReplacements =
                  IF pOriginal.name # <<>> /\ target.name # <<>>
                  THEN NameOccurrencesFrom(pContent.html.elems, 1, pOriginal.name)
                  ELSE 0

\* body{color:#ff0000;font-family:Georgia;}
ExampleStyleRebranded ==
    <<"b","o","d","y","{","c","o","l","o","r",":","#","f","f",
     "0","0","0","0",";","f","o","n","t","-","f","a","m","i",
     "l","y",":","G","e","o","r","g","i","a",";","}">>

\* C8: for the page <a class="brand">Acme</a> with the style block
\* body{color:#112233;font-family:Arial;} the analysis returns Acme,
\* #112233 and Arial, and the rebranding to Zenith, #ff0000 and Georgia
\* gives an anchor that reads Zenith, a style block with #ff0000 and
\* Georgia in place of #112233 and Arial, and three counters of at least 1.
C8_EndToEndExample ==
    (pContent = ExampleContent /\ pOriginal # NoBrand) =>
        /\ pOriginal.name = <<"A","c","m","e">>
        /\ pOriginal.colors.primary = <<"#","1","1","2","2","3","3">>
        /\ pOriginal.typography.primary = <<"A","r","i","a","l">>
        /\ \A k \in CallIdx :
              pCalls[k].newBrand = ZenithBrand =>
                  LET r == pCalls[k].result
                  IN  /\ r.html.elems[1].text = <<"Z","e","n","i","t","h">>
                      /\ r.html.elems[2].text = ExampleStyleRebranded
                      /\ r.changes.nameReplacements >= 1
                      /\ r.changes.colorReplacements >= 1
                      /\ r.changes.fontReplacements >= 1

C10_SelfRebrandChangesNothing ==
    \A k \in CallIdx :
        pCalls[k].newBrand = pOriginal =>
            /\ pCalls[k].result.changes.nameReplacements = 0
            /\ pCalls[k].result.changes.colorReplacements = 0
            /\ pCalls[k].result.changes.fontReplacements = 0
            /\ pCalls[k].result.html.elems = pContent.html.elems

(***************************************************************************)
(* Claims about the steps of the rebranding                                *)
(***************************************************************************)
\* The last call of rebrandWebsite; pContent is the content it was given.
LastCall == pCalls[Len(pCalls)]

\* s with every occurrence of pat, ignoring case, replaced by the
\* characters of rep as they are, from position i on.
RECURSIVE LiteralReplaceFrom(_, _, _, _)
LiteralReplaceFrom(s, i, pat, rep) ==
    LET j == NextMatch(s, i, pat)
    IN  IF j = 0 THEN SubSeq(s, i, Len(s))
        ELSE SubSeq(s, i, j - 1) \o rep
               \o LiteralReplaceFrom(s, j + Len(pat), pat, rep)

\* C21: when both names are set, every text node and every attribute value
\* of the output is that of the input with every occurrence of
\* original.name, compared literally and ignoring case, replaced by exactly
\* the characters of target.name. (Style text and the image of the logo
\* step are rewritten by later steps and not compared.)
C21_NameReplacedLiterally ==
    (pCalls # <<>> /\ pOriginal.name # <<>> /\ LastCall.newBrand.name # <<>>) =>
        LET doc == pContent.html.elems
            out == LastCall.result.html.elems
            L(s) == LiteralReplaceFrom(s, 1, pOriginal.name, LastCall.newBrand.name)
        IN  \A i \in 1..Len(doc) :
               /\ out[i].cls = L(doc[i].cls)
               /\ doc[i].tag # "style" => out[i].text = L(doc[i].text)
               /\ ~LastCall.result.changes.logoReplaced =>
                     /\ out[i].alt = L(doc[i].alt)
                     /\ out[i].src = L(doc[i].src)

\* The style text of one block after the colour and font steps.
TransformedBlock(text, original, target) ==
    ReplaceFonts(ReplaceColors(text, 0, original, target).css, 0,
                 original, target).css

\* C22: the style blocks of the output are those of the input, in number
\* and order, and block i holds the transformed text of block i of the
\* input and nothing of another block.
C22_StylesWrittenBackPositionally ==
    pCalls # <<>> =>
        LET named == ReplaceName(pContent.html.elems, pOriginal, LastCall.newBrand)
            out == LastCall.result.html.elems
        IN  /\ Len(out) = Len(named)
            /\ \A i \in 1..Len(named) :
                  /\ out[i].tag = "style" <=> named[i].tag = "style"
                  /\ named[i].tag = "style" =>
                        out[i].text = TransformedBlock(named[i].text, pOriginal,
                                                       LastCall.newBrand)

\* The first image of the document in the priority order of the logo
\* selectors, 0 when no selector matches.
FirstLogoImage(doc) ==
    LET hits == {k \in 1..Len(logoSelectors) : Select(doc, logoSelectors[k]) # {}}
    IN  IF hits = {} THEN 0
        ELSE First(Select(doc, logoSelectors[FirstOf(hits)]))

PlaceholderPrefix == <<"h","t","t","p","s",":","/","/","v","i","a",".","p","l",
            "a","c","e","h","o","l","d","e","r",".","c","o","m","/",
            "1","5","0","x","5","0","/","3","1","8","2","C","E","/",
            "F","F","F","F","F","F","/","?","t","e","x","t","=">>

\* C23: without original.logo the logo step changes no src and no alt and
\* logoReplaced stays false; with original.logo and a logo-like image in
\* the document, the first match in selector priority order, and no other
\* image, gets the placeholder src for target.name and the alt
\* "<target.name> logo", and logoReplaced is true.
C23_LogoStep ==
    pCalls # <<>> =>
        LET doc == pContent.html.elems
            target == LastCall.newBrand
            named == ReplaceName(doc, pOriginal, target)
            out == LastCall.result.html.elems
            e == FirstLogoImage(doc)
            Kept(i) == out[i].src = named[i].src /\ out[i].alt = named[i].alt
        IN  /\ pOriginal.logo = <<>> =>
                  /\ \A i \in 1..Len(doc) : Kept(i)
                  /\ ~LastCall.result.changes.logoReplaced
            /\ (pOriginal.logo # <<>> /\ e # 0) =>
                  /\ out[e].src = PlaceholderPrefix \o encodeURIComponent(target.name)
                  /\ out[e].alt = target.name \o <<" ","l","o","g","o">>
                  /\ \A i \in 1..Len(doc) \ {e} : Kept(i)
                  /\ LastCall.result.changes.logoReplaced

HeadCount(head, kind) ==
    Cardinality({k \in 1..Len(head) : head[k].kind = kind})

\* C24: when rebrandWebsite is applied to the output of a call with the
\* same target, the head of the result holds exactly one generator meta
\* tag and at most one font link.
C24_HeadAdditionsIdempotent ==
    (/\ Len(pCalls) >= 2
     /\ pContent.html = pCalls[Len(pCalls) - 1].result.html
     /\ pCalls[Len(pCalls) - 1].newBrand = LastCall.newBrand) =>
        /\ HeadCount(LastCall.result.html.head, "generatorMeta") = 1
        /\ HeadCount(LastCall.result.html.head, "fontLink") <= 1

\* The colour slots the code replaces: primary always, secondary and
\* accent when both brands have one.
ColorSlots(original, target) ==
    <<[from |-> original.colors.primary, to |-> target.colors.primary]>>
      \o (IF original.colors.secondary # <<>> /\ target.colors.secondary # <<>>
          THEN <<[from |-> original.colors.secondary,
                  to |-> target.colors.secondary]>>
          ELSE <<>>)
      \o (IF original.colors.accent # <<>> /\ target.colors.accent # <<>>
          THEN <<[from |-> original.colors.accent, to |-> target.colors.accent]>>
          ELSE <<>>)

\* The slot whose original colour stands at position k of s, 0 if none.
SlotAt(s, k, slots) ==
    FirstOf({n \in 1..Len(slots) :
                slots[n].from # <<>> /\ MatchAt(s, k, slots[n].from)})

\* s from position i on, each original colour replaced by the target
\* colour of its own slot, in one pass over the input text.
RECURSIVE SlotwiseFrom(_, _, _)
SlotwiseFrom(s, i, slots) ==
    LET j == FirstOf({k \in i..Len(s) : SlotAt(s, k, slots) # 0})
    IN  IF j = 0 THEN SubSeq(s, i, Len(s))
        ELSE LET slot == slots[SlotAt(s, j, slots)]
             IN  SubSeq(s, i, j - 1) \o slot.to
                   \o SlotwiseFrom(s, j + Len(slot.from), slots)

\* C25: every place of the inline style text that held the original colour
\* of a slot holds the target colour of that slot after the call, also
\* when a target colour equals the original colour of another slot.
C25_ColorSlotsIndependent ==
    pCalls # <<>> =>
        LET named == ReplaceName(pContent.html.elems, pOriginal, LastCall.newBrand)
            css == Join(InlineStyles(named), <<"\n">>)
            slotwise == SlotwiseFrom(css, 1, ColorSlots(pOriginal, LastCall.newBrand))
        IN  LastCall.result.css
               = ReplaceFonts(slotwise, 0, pOriginal, LastCall.newBrand).css

(***************************************************************************)
(* Claims about the wizard's deployment                                    *)
(***************************************************************************)
\* The website the server created under the id, as a set (empty or one).
CreatedAs(id) ==
    {createdWebsites[i] : i \in {j \in DOMAIN createdWebsites :
                                    createdWebsites[j]._id = id}}

OriginalBrandName ==
    (CHOOSE s \in Sites : s.originalContent = website.originalContent).brandElements.name

\* s with every occurrence of pat replaced by rep, from position i on.
RECURSIVE ExactReplaceFrom(_, _, _, _)
ExactReplaceFrom(s, i, pat, rep) ==
    LET j == IndexFrom(s, i, pat)
    IN  IF j = 0 THEN SubSeq(s, i, Len(s))
        ELSE SubSeq(s, i, j - 1) \o rep \o ExactReplaceFrom(s, j + Len(pat), pat, rep)

\* C27: after a successful rebrand request the stored rebrandedContent.html
\* is the original html with every occurrence of the website's original
\* brand name in a text node of the body replaced by the name of the target
\* of that request, and the stored brandElements are that target.
C27_StoredFollowsLatestTarget ==
    postResponse.status = 200 =>
        LET target == postRequest.body.newBrandElements
            doc == website.originalContent.html
            stored == website.rebrandedContent.html
        IN  /\ website.brandElements = target
            /\ Len(stored) = Len(doc)
            /\ \A i \in 1..Len(doc) :
                  InBody(doc, i) =>
                      stored[i].text =
                          ExactReplaceFrom(doc[i].text, 1, OriginalBrandName, target.name)

\* The caller of the last request is the creator of the website or one of
\* its collaborators.
CallerIsMember(session) ==
    /\ session.kind = "user"
    /\ session.id # ""
    /\ session.id = website.creator \/ session.id \in website.collaborators

\* A request of any other caller leaves the website and the activity log
\* as they are.
OthersChangeNothing ==
    ~CallerIsMember(postRequest'.session) => UNCHANGED <<website, activities>>

WhiteOrTransparentLiterals ==
    { <<"#","f","f","f">>, <<"#","F","F","F">>, <<"r","g","b","(","2","5","5",",","2","5","5",",","2","5","5",")">>, <<"r","g","b","a","(","0",",","0",",","0",",","0",")">> }

\* The colour literals of the style text of the content, in text order.
FoundColors ==
    ColorMatches(Join(InlineStyles(pContent.html.elems), <<" ">>))

\* The distinct literals among them that are neither white nor transparent.
Candidates ==
    {FoundColors[k] : k \in 1..Len(FoundColors)} \ WhiteOrTransparentLiterals

Frequency(c) == CountOf(FoundColors, c)

\* 1 for the most frequent candidate, 2 for the next, ...
Rank(c) == 1 + Cardinality({d \in Candidates : Frequency(d) > Frequency(c)})

Analyzed == pOriginal # NoBrand /\ pContent.title # Undefined

\* C11: when the non-white colours of the style text have strictly
\* decreasing frequencies, the most frequent is colors.primary, the second
\* colors.secondary and the third colors.accent.
C11_ColorsRankedByFrequency ==
    (/\ Analyzed
     /\ \A c \in Candidates : \A d \in Candidates :
            c # d => Frequency(c) # Frequency(d))
        => \A c \in Candidates :
              /\ Rank(c) = 1 => pOriginal.colors.primary = c
              /\ Rank(c) = 2 => pOriginal.colors.secondary = c
              /\ Rank(c) = 3 => pOriginal.colors.accent = c

\* C16: colors.primary, colors.secondary and colors.accent are never a
\* white or fully transparent literal, and no other literal is dropped:
\* when the style text has at most three other literals, each of them is
\* one of the three.
C16_WhiteAndTransparentDropped ==
    Analyzed =>
        /\ {pOriginal.colors.primary, pOriginal.colors.secondary,
            pOriginal.colors.accent} \cap WhiteOrTransparentLiterals = {}
        /\ Cardinality(Candidates) <= 3 =>
              Candidates \subseteq {pOriginal.colors.primary,
                                    pOriginal.colors.secondary,
                                    pOriginal.colors.accent}

\* C17: when the style text has fewer than three distinct non-white
\* colours, colors.accent is left unset.
C17_AccentOmittedBelowThree ==
    (Analyzed /\ Cardinality(Candidates) < 3)
        => pOriginal.colors.accent = <<>>

BrandSelectorOrder ==
    <<"a.brand", "a.navbar-brand", ".brand", ".logo", "header .logo",
      "header h1", "header a", "a[class*=logo]", "a[class*=brand]">>

\* A text that can be a name: not empty and shorter than 30 characters.
Qualifies(s) == s # <<>> /\ Len(s) < 30

\* The name the k-th selector yields: the trimmed text of its first
\* element, else the alt of the image of that element, <<>> if neither
\* qualifies or nothing matches.
ProbeYield(k) ==
    LET doc == pContent.html.elems
        hits == Select(doc, BrandSelectorOrder[k])
        e == FirstOf(hits)
    IN  IF hits = {} THEN <<>>
        ELSE IF Qualifies(Trim(ElementText(doc, e))) THEN Trim(ElementText(doc, e))
        ELSE IF Qualifies(FindImgAlt(doc, e)) THEN FindImgAlt(doc, e)
        ELSE <<>>

\* The trimmed text of the title before its first " | " or " - ".
TitlePrefix ==
    LET t == pContent.title
        seps == {k \in 1..Len(t) : \/ MatchAtCS(t, k, <<" ", "|", " ">>)
                                   \/ MatchAtCS(t, k, <<" ", "-", " ">>)}
    IN  Trim(IF seps = {} THEN t ELSE SubSeq(t, 1, FirstOf(seps) - 1))

YieldingSelectors == {k \in 1..Len(BrandSelectorOrder) : ProbeYield(k) # <<>>}

\* C18: the name is what the first selector in priority order yields (the
\* trimmed text of its first element if that qualifies, else the alt of
\* its image if that qualifies); only when no selector yields a name is it
\* the trimmed text of the title before the first separator.
C18_NameByPriorityThenTitle ==
    (pOriginal # NoBrand /\ pContent.title # Undefined) =>
        pOriginal.name =
            IF YieldingSelectors # {} THEN ProbeYield(FirstOf(YieldingSelectors))
            ELSE TitlePrefix

\* The a.brand element holds a text that is too long and an image whose
\* alt is too long, the .logo element blank text and an image with a short
\* alt: the name is that alt, not the text of the header h1.
C18_Witness ==
    /\ pOriginal # NoBrand
    /\ Select(pContent.html.elems, "a.brand") # {}
    /\ ProbeYield(1) = <<>>
    /\ ProbeYield(4) = <<"B", "o", "l", "t", "!">>
    /\ ProbeYield(6) = <<"C", "o", "r", "e">>
    /\ pOriginal.name = <<"B", "o", "l", "t", "!">>

(***************************************************************************)
(* Claims about isLightColor                                               *)
(***************************************************************************)
HexDigitOrder ==
    <<"0", "1", "2", "3", "4", "5", "6", "7", "8", "9",
      "a", "b", "c", "d", "e", "f">>

DigitValue(c) == CHOOSE v \in 0..15 : HexDigitOrder[v + 1] = Lower(c)

\* The k-th channel (1 red, 2 green, 3 blue) of the digits h of a #rgb or
\* #rrggbb literal.
Channel(h, k) ==
    IF Len(h) = 3 THEN 17 * DigitValue(h[k])
    ELSE 16 * DigitValue(h[2 * k - 1]) + DigitValue(h[2 * k])

\* 0.299 R + 0.587 G + 0.114 B > 128, in thousandths
LuminanceAbove128(h) ==
    299 * Channel(h, 1) + 587 * Channel(h, 2) + 114 * Channel(h, 3) > 128000

\* C12: a #rgb or #rrggbb literal, in either case, is light exactly when
\* its luminance 0.299 R + 0.587 G + 0.114 B exceeds 128, so #FFFFFF is
\* light and #000000 is not; a literal in a functional notation is dark.
C12_LightIffLuminanceAbove128 ==
    lColor # NoColor =>
        /\ (lColor[1] = "#" /\ Len(lColor) \in {4, 7})
              => (lLight <=> LuminanceAbove128(Tail(lColor)))
        /\ lColor[1] # "#" => ~lLight
        /\ lColor = <<"#", "F", "F", "F", "F", "F", "F">> => lLight
        /\ lColor = <<"#", "0", "0", "0", "0", "0", "0">> => ~lLight

\* The grey #808080 has the luminance 128 exactly and is dark.
C12_Witness ==
    /\ lColor = <<"#", "8", "0", "8", "0", "8", "0">>
    /\ ~LuminanceAbove128(Tail(lColor))
    /\ ~lLight

(***************************************************************************)
(* Claims about the client scrapeWebsite                                   *)
(***************************************************************************)
RequestFailed(k) == cRequests[k].outcome.kind # "ok"

FailedWith500(k) ==
    cRequests[k].outcome.kind = "status" /\ cRequests[k].outcome.status = 500

\* The call returned the placeholder content of its url.
ReturnedFallback ==
    /\ cResult.kind = "content"
    /\ cResult.content.title = <<"F","a","l","l","b","a","c","k"," ","f","o","r"," ">> \o cUrl
    /\ cResult.content.url = cUrl
    /\ cResult.content.css = <<>> /\ cResult.content.images = <<>>
    /\ cResult.content.structure =
          [header |-> TRUE, footer |-> TRUE, navigation |-> FALSE, sections |-> 1]

\* The call returned the content of its last request.
ReturnedData ==
    /\ cResult.kind = "content"
    /\ cResult.content = cRequests[Len(cRequests)].outcome.data

\* C13: a call with useProxy=true never throws and returns the placeholder
\* content on any request error; a call with useProxy=false throws 'Failed
\* to scrape website' when its request fails with anything but an HTTP 500,
\* and on an HTTP 500 makes exactly one more request, with useProxy=true,
\* and then ends in content or placeholder content, never in a throw.
C13_ClientExhaustion ==
    cPc = "done" =>
        /\ cArgProxy =>
              /\ cResult.kind # "throw"
              /\ Len(cRequests) = 1
              /\ cRequests[1].useProxy
              /\ IF RequestFailed(1) THEN ReturnedFallback ELSE ReturnedData
        /\ (~cArgProxy /\ RequestFailed(1) /\ ~FailedWith500(1)) =>
              /\ cResult.kind = "throw"
              /\ StartsWith(cResult.message, <<"F","a","i","l","e","d"," ","t","o"," ","s","c","r","a","p","e"," ","w","e","b","s","i","t","e">>)
              /\ Len(cRequests) = 1
        /\ (~cArgProxy /\ FailedWith500(1)) =>
              /\ Len(cRequests) = 2
              /\ ~cRequests[1].useProxy /\ cRequests[2].useProxy
              /\ cResult.kind # "throw"
              /\ IF RequestFailed(2) THEN ReturnedFallback ELSE ReturnedData
        /\ (~cArgProxy /\ ~RequestFailed(1)) =>
              /\ Len(cRequests) = 1
              /\ ReturnedData

\* A call without proxy whose request met an HTTP 500 and whose retry with
\* the proxy failed as well: it ends with the placeholder content.
C13_Witness ==
    /\ cPc = "done"
    /\ ~cArgProxy
    /\ Len(cRequests) = 2
    /\ FailedWith500(1)
    /\ cRequests[2].useProxy
    /\ RequestFailed(2)
    /\ ReturnedFallback


\* The second request follows a first one made without the proxy that met
\* an HTTP 500, and is made with the proxy.
SecondRequestIsTheRetry ==
    /\ Len(cRequests) <= 2
    /\ Len(cRequests) = 2 =>
          /\ ~cRequests[1].useProxy
          /\ FailedWith500(1)
          /\ cRequests[2].useProxy
    /\ cPc = "done" => Len(cRequests) >= 1

\* C29: a call of scrapeWebsite ends after at most two requests to the
\* scrape API; the second is made only when the first was made with
\* useProxy=false and failed with an HTTP 500, it is made with
\* useProxy=true, and no third follows.
C29_AtMostTwoRequests ==
    /\ []SecondRequestIsTheRetry
    /\ (cPc = "request") ~> (cPc = "done")

\* A call without proxy that ended with the content its retry fetched.
C29_Witness ==
    /\ cPc = "done"
    /\ Len(cRequests) = 2
    /\ ~RequestFailed(2)
    /\ ReturnedData

(***************************************************************************)
(* Claims about the parser                                                 *)
(***************************************************************************)
Tagged(doc, t) == {i \in 1..Len(doc) : doc[i].tag = t}

ClassContains(doc, word) == {i \in 1..Len(doc) : Includes(doc[i].cls, word)}

\* C19: header is true exactly when the document has a header tag or any
\* element whose class attribute contains "header", the same for footer
\* and for navigation (nav), and sections is the number of section tags
\* plus the number of elements of any tag whose class contains "section".
C19_StructureFingerprint ==
    gResponse.kind = "content" =>
        LET doc == gResponse.html
            s == gResponse.content.structure
        IN  /\ s.header <=> (Tagged(doc, "header") # {}
                                \/ ClassContains(doc, <<"h","e","a","d","e","r">>) # {})
            /\ s.footer <=> (Tagged(doc, "footer") # {}
                                \/ ClassContains(doc, <<"f","o","o","t","e","r">>) # {})
            /\ s.navigation <=> (Tagged(doc, "nav") # {}
                                    \/ ClassContains(doc, <<"n","a","v">>) # {})
            /\ s.sections = Cardinality(Tagged(doc, "section"))
                              + Cardinality(ClassContains(doc, <<"s","e","c","t","i","o","n">>))

IsAbsoluteUrl(ref) == SchemeLen(ref) > 0

\* An absolute reference unchanged, any other resolved against the origin
\* of the request url.
AbsoluteFor(ref, u) ==
    IF IsAbsoluteUrl(ref) THEN ref ELSE Resolve(ref, Origin(u))

IsStylesheetLink(e) == e.tag = "link" /\ e.rel = <<"s","t","y","l","e","s","h","e","e","t">> /\ e.href # <<>>

IsStyle(e) == e.tag = "style"

IsImage(e) == e.tag = "img" /\ e.src # <<>>

\* C20: css is the stylesheet-link URLs in document order followed by the
\* inline style blocks in document order; every stylesheet URL and every
\* images entry is absolute: the href or src itself when that is absolute,
\* otherwise its resolution against the origin of the request url.
C20_CssAndImagesAbsolute ==
    gResponse.kind = "content" =>
        LET doc == gResponse.html
            c == gResponse.content
            links == SelectSeq(doc, IsStylesheetLink)
            styles == SelectSeq(doc, IsStyle)
            imgs == SelectSeq(doc, IsImage)
        IN  /\ Len(c.css) = Len(links) + Len(styles)
            /\ \A k \in 1..Len(links) :
                  /\ c.css[k] = AbsoluteFor(links[k].href, gUrl)
                  /\ IsAbsoluteUrl(c.css[k])
            /\ \A k \in 1..Len(styles) : c.css[Len(links) + k] = styles[k].text
            /\ Len(c.images) = Len(imgs)
            /\ \A k \in 1..Len(imgs) :
                  /\ c.images[k] = AbsoluteFor(imgs[k].src, gUrl)
                  /\ IsAbsoluteUrl(c.images[k])

(***************************************************************************)
(* Claims about the wizard                                                 *)
(***************************************************************************)
\* handleRebrandWebsite on a newBrand with an empty name, colors.primary or
\* typography.primary leaves rebrandedContent and step as they are and
\* shows the brand information error.
WizardRefusesIncompleteBrand ==
    [][(/\ handleRebrandWebsite
        /\ \/ newBrand.name = <<>>
           \/ newBrand.colors.primary = <<>>
           \/ newBrand.typography.primary = <<>>)
          => /\ rebrandedContent' = rebrandedContent
             /\ step' = step
             /\ error' = ErrBrandInfo]_vars

\* What makes handleScrapeWebsite throw: the url check, or a scraper or
\* analyzer that throws or returns nothing.
ScrapeFails(scraped) == ~UrlValid(url) \/ scraped = NoContent

\* What makes handleRebrandWebsite throw.
RebrandFails ==
    scrapedContent = NoContent \/ originalBrand = NoBrand \/ ~NewBrandValid(newBrand)

StepHasItsContent ==
    /\ step = 2 => scrapedContent # NoContent /\ originalBrand # NoBrand
    /\ step = 3 => rebrandedContent # NoRebranded

FailureKeepsStep ==
    /\ \A c \in WizardContents \cup {NoContent} :
          handleScrapeWebsite(c) /\ ScrapeFails(c)
              => step' = step /\ error' # "" /\ isLoading' = FALSE
    /\ handleRebrandWebsite /\ RebrandFails
          => step' = step /\ error' # "" /\ isLoading' = FALSE

\* C30: in every reachable state step = 2 implies scrapedContent and
\* originalBrand are set and step = 3 implies rebrandedContent is set; a
\* failed scrape or rebrand leaves step unchanged, sets the error message
\* and leaves isLoading false.
C30_StepsAndFailures == []StepHasItsContent /\ [][FailureKeepsStep]_vars

\* A rebrand has failed at step 2 after a successful scrape, and an earlier
\* round has left its rebrandedContent behind.
C30_Witness ==
    /\ step = 2
    /\ error = ErrBrandInfo
    /\ ~isLoading
    /\ scrapedContent # NoContent
    /\ rebrandedContent # NoRebranded
(***************************************************************************)
(* Claims about retrieval                                                  *)
(***************************************************************************)
AttemptIdx == 1..Len(gAttempts)

DirectAttempts == {i \in AttemptIdx : gAttempts[i].path = "direct"}

ProxyAttempts == {i \in AttemptIdx : gAttempts[i].path = "proxy"}

\* An alternate endpoint answered with status 200 and a non-empty body.
AttemptDelivered(i) ==
    /\ gAttempts[i].outcome.kind = "ok"
    /\ gAttempts[i].outcome.status = 200
    /\ gAttempts[i].outcome.body # EmptyBody

\* C1: with useProxy=false, once the direct fetch has succeeded no
\* alternate endpoint is attempted in that request.
C1_DirectSuccessNoAlternate ==
    (/\ ~gUseProxy
     /\ \E i \in DirectAttempts : gAttempts[i].outcome.kind = "ok")
        => ProxyAttempts = {}

C1_Witness ==
    /\ gPc = "done"
    /\ ~gUseProxy
    /\ \E i \in DirectAttempts : gAttempts[i].outcome.kind = "ok"
    /\ gResponse.status = 200

\* C2: the alternate endpoints are attempted in list order, each at most
\* once; the first one that delivers ends the chain and its body is the
\* html used; there is at most one direct and NumProxies alternate attempts.
C2_ProxiesInOrderFirstSuccessWins ==
    /\ \A i \in ProxyAttempts :
          gAttempts[i].idx = Cardinality({j \in ProxyAttempts : j <= i})
    /\ \A i \in ProxyAttempts :
          AttemptDelivered(i) =>
              /\ i = Len(gAttempts)
              /\ gHtml = gAttempts[i].outcome.body
              /\ gPc = "done" /\ gResponse.status = 200
                    => gResponse.html = gAttempts[i].outcome.body
    /\ Cardinality(DirectAttempts) <= 1
    /\ Cardinality(ProxyAttempts) <= NumProxies

C2_Witness ==
    /\ gPc = "done"
    /\ Cardinality(ProxyAttempts) = 3
    /\ \A i \in ProxyAttempts : gAttempts[i].idx < 3 => ~AttemptDelivered(i)
    /\ \E i \in ProxyAttempts :
          /\ gAttempts[i].idx = 3
          /\ AttemptDelivered(i)
          /\ gResponse.html = gAttempts[i].outcome.body

\* C3: with useProxy=true the direct fetch is never attempted.
C3_PreferAlternateSkipsDirect ==
    gUseProxy => DirectAttempts = {}

C3_Witness ==
    /\ gUseProxy
    /\ gPc = "done"
    /\ ProxyAttempts # {}
    /\ gAttempts[1].path = "proxy" /\ gAttempts[1].idx = 1

\* C4: when the direct fetch and every alternate endpoint have failed, the
\* response is an error response, never a successful ScrapedContent.
C4_ExhaustionIsAnError ==
    (/\ gPc = "done"
     /\ ~gUseProxy
     /\ \E i \in DirectAttempts : gAttempts[i].outcome.kind # "ok"
     /\ Cardinality(ProxyAttempts) = NumProxies
     /\ \A i \in ProxyAttempts : ~AttemptDelivered(i))
        => /\ gResponse.status # 200
           /\ gResponse.kind \in {"timeout", "upstream-status", "no-response", "generic"}

\* A warn entry of the log for the attempt at entry idx of the chain (0 is
\* the direct fetch).
FailureLogged(idx) ==
    \E k \in DOMAIN gLog : gLog[k].level = "warn" /\ gLog[k].idx = idx

\* C14: every failed attempt, the direct fetch and each alternate endpoint
\* (also one that answers with a status other than 200 or with an empty
\* body), has a failure entry in the log as soon as it has failed, so
\* before the next attempt starts.
C14_EveryFailureLogged ==
    /\ \A i \in DirectAttempts :
          gAttempts[i].outcome.kind # "ok" => FailureLogged(0)
    /\ \A i \in ProxyAttempts :
          ~AttemptDelivered(i) => FailureLogged(gAttempts[i].idx)

====
